---- MODULE Spec2Model ----
(***************************************************************************)
(* Git Fusion (perforce-git-fusion): a model of the synchronization        *)
(* engine's coordination code.                                             *)
(*                                                                         *)
(*   SpecCheck  - G2PConflictChecker driven through its public methods     *)
(*                (p4gf_g2p_conflict_checker.py)                           *)
(*   SpecExport - G2P.copy / G2P.copy_commit, the export loop              *)
(*                (p4gf_copy_to_p4.py)                                     *)
(*   SpecReplay - G2P.copy_blobs / run_p4_commands / revert_and_raise,     *)
(*                one commit's file replay (p4gf_copy_to_p4.py)            *)
(*   SpecLock   - CounterLock acquire / release / heartbeat                *)
(*                (p4gf_lock.py)                                           *)
(*   SpecLockLive - CounterLock with holders that outlive their heartbeat  *)
(*                and processes that end where no heartbeat is written     *)
(*                (p4gf_lock.py)                                           *)
(*   SpecPacemaker - acquire / release of a view_lock() and its pacemaker  *)
(*                process (p4gf_lock.py)                                   *)
(*   SpecCheckpoint - Context.heartbeat in the export and import loops     *)
(*                (p4gf_context.py, p4gf_copy_to_git.py)                   *)
(*   SpecMirror - GitMirror.add_commits / add_objects_to_p4 of several     *)
(*                views on one host, get_change_for_commit                 *)
(*                (p4gf_gitmirror.py, p4gf_object_type.py)                 *)
(*   SpecImport - copy_p2g / P2G.copy and the Git branches it moves        *)
(*                (p4gf_copy_p2g.py, p4gf_copy_to_git.py)                  *)
(*   SpecServe  - p4gf_auth_server.main: init_repo, the import and the     *)
(*                cleanup of a failed first import (p4gf_auth_server.py)   *)
(*   SpecGraft  - RevRange.from_start_stop: the graft changelist of a first  *)
(*                import that starts at @S (p4gf_copy_to_git.py)           *)
(*   SpecDescription - change_description and FastImport.add_commit: a       *)
(*                commit's message and authorship through a changelist      *)
(*                (p4gf_copy_to_p4.py, p4gf_fastimport.py)                  *)
(*   SpecRoundTrip - a changelist's files through FastImport.__add_files,   *)
(*                G2P.add_or_edit_blob and __add_files again                *)
(*                (p4gf_fastimport.py, p4gf_copy_to_p4.py)                  *)
(*   SpecPath   - git fast-export's quoting of a path and                   *)
(*                Parser.get_path_token (p4gf_fastexport.py)               *)
(*   SpecInit   - _maybe_perform_init on one pair of counters               *)
(*                (p4gf_init.py); SpecInitLive adds that a process that    *)
(*                runs takes its next step                                 *)
(*                                                                         *)
(* Every specification moves only its own variables; the others keep the   *)
(* value Init gives them.                                                  *)
(***************************************************************************)
EXTENDS Integers, Sequences, FiniteSets, TLC

VARIABLES
    \* ---- SpecCheck: one G2PConflictChecker and the server it queries
    ckGood,        \* self.good: sequence of CommitChange
    ckLast,        \* self.last_good_change_number
    ckFirst,       \* self.first_conflict_index
    ckView,        \* submitted changelist numbers in the client view, ascending
    ckNext,        \* the server's next changelist number
    ckQuery,       \* what the last 'p4 changes -m5' returned (newest first)
    ckRet,         \* what the last check() returned
    ckRaised,      \* the exception the last check() raised, or "none"
    ckChecked      \* TRUE when the last step was check()

VARIABLES
    \* ---- SpecExport: one G2P.copy() call, the server and the other writers
    xPc,           \* where copy() is
    xTotal,        \* len(fe.commands)
    xIdx,          \* number of commands the for loop has taken
    xCur,          \* the command being processed
    xAuthor,       \* author_p4user of the commit being processed
    xChanges,      \* submitted changelists of the view; the number is the index
    xOpened,       \* commits whose files are opened in the project workspace
    xNonEmpty,     \* commits whose replay opened at least one file
    xUnknownGit,   \* whether the server has an 'unknown_git' account
    xUsers,        \* UserMap.users
    xGood,         \* conflict_checker.good
    xLast,         \* conflict_checker.last_good_change_number
    xFirst,        \* conflict_checker.first_conflict_index
    xRet,          \* what the last conflict_checker.check() returned
    xMarks,        \* marks
    xMirror,       \* commit objects of this view in the object mirror
    xFlushed,      \* TRUE once the mirror flush of the finally block completed
    xExc,          \* the exception in flight, or "none"
    xMsg,          \* why it was raised
    xPre,          \* foreign changelists since the last check(), landed before
                   \* the submit of the commit in progress
    xPreAtCheck    \* xPre as the last check() found it

VARIABLES
    \* ---- SpecReplay: the file replay of one commit in copy_commit()
    rPc,           \* where copy_commit() is
    rBlobs,        \* commit['files']: a sequence of blobs
    rIdx,          \* blobs the current pass has taken
    rOps,          \* self.addeditdelete: the (operation, path) pairs set up
    rOpened,       \* paths opened in the project workspace on the server
    rLocal,        \* files this commit newly created in the local tree
    rLog,          \* the commands this commit has sent to the server, in order
    rExc           \* the exception in flight, or "none"

VARIABLES
    \* ---- SpecLock: one lock counter, its heartbeat counter, the processes
    lkCounter,     \* value of the lock counter, 0 when it does not exist
    lkHeartbeat,   \* time field of the heartbeat counter, None when deleted
    lkHeartbeatPid,\* process field of the heartbeat counter, 0 when deleted
    lkNow,         \* the clock, in seconds
    lkPc,          \* where each process is
    lkHas,         \* self.__has__ of each process's CounterLock
    lkStart,       \* 'start' of each process's acquire()
    lkBeatTime,    \* self.__heartbeat_time of each process's CounterLock
    lkStealing,    \* TRUE while release() runs on behalf of acquire()
    lkReclaimed,   \* TRUE once the process has cleared an abandoned lock and
                   \* until it releases a lock it acquired
    lkStolen,      \* TRUE once some acquire() has found the heartbeat stale
    lkAuto,        \* TRUE for a lock made by view_lock(): autobeat()
    lkPace,        \* each process's pacemaker: "none", "test", "update",
                   \* "clear", "exited"
    lkPaceTime,    \* __heartbeat_time of each pacemaker's own CounterLock

    \* ---- SpecCheckpoint: one copy loop under a view lock
    cpMode,        \* "export" (G2P.copy) or "import" (P2G._fast_import)
    cpTotal,       \* number of commits / changelists to copy
    cpPc,          \* position in the loop
    cpIdx,         \* the commit / changelist the loop is at
    cpLock,        \* value of the view's lock counter, 0 when deleted
    cpBeat,        \* the checkpoint that last wrote the heartbeat counter, 0 none
    cpDone,        \* commits submitted / changelists added to the import script
    cpExc,         \* TRUE once the loop raised
    cpZeroAt,      \* first checkpoint that ran while the lock counter was 0
    cpLostAt,      \* the item the loop was at when the counter was first deleted

    \* ---- SpecMirror: the object mirror in //.git-fusion/objects, written
    \* ---- by every view's process through the host's one object client
    mDepot,        \* submitted mirror files: path -> views attribute, <<>> absent
    mOpened,       \* files opened in the object client: path -> action and
                   \* pending views attribute
    mPc,           \* each view's process: position in add_objects_to_p4
    mObjects,      \* each process's GitObjectList.objects, in insertion order
    mHandler,      \* each process's FilterAddFstatHandler: files and existing
    mNotAdded,     \* each process's files_not_added
    mSeen,         \* paths that were in the depot when the process ran fstat
    mStored,       \* how many times each path's content was added to the depot
    mSessions,     \* mirror operations started

    \* ---- SpecImport: one copy_p2g into an existing Git repository
    imPc,          \* the step copy_p2g / P2G.copy is at
    imNew,         \* number of changelists not yet in Git
    imAdded,       \* commits written to the fast-import script
    imPrior,       \* master's commit when copy_p2g began, 0 when unborn
    imMaster,      \* master's commit: the number of changelists it holds
    imTemp,        \* git_fusion_temp_branch's commit, None when absent
    imAttached,    \* TRUE when HEAD is on master, FALSE when detached
    imExc,         \* TRUE once copy_p2g raised
    imP4Empty,     \* TRUE when 'p4 files -m1 //client/...' returns nothing
    imEmptyRepo,   \* TRUE while branch empty_repo exists
    imChanges,     \* TRUE once P2G._setup has listed the changelists
    imKeys,        \* the keys of P2G.changes: changelist numbers as strings
    imScript,      \* the commit records of the fast-import script, in order
    imLast,        \* last_commit of P2G.copy and _fast_import

    \* ---- SpecServe: p4gf_auth_server.main for one view, request after request
    svPc,          \* where main() is
    svRequests,    \* requests started
    svTemplate,    \* TRUE when the client named like the view exists
    svClient,      \* TRUE when the client git-fusion-<view> exists
    svDir,         \* TRUE when the view's directory exists
    svHave,        \* TRUE when the client has synced files
    svLock,        \* TRUE while main() holds the view lock
    svStatus,      \* init_repo_status of the request, None before init_repo
    svCreated,     \* repo_created
    svExc,         \* TRUE once copy_p2g_ctx raised in the request

    \* ---- SpecGraft: RevRange.from_start_stop for a new repository
    gView,         \* changelist numbers that touch the client view
    gStart,        \* S of the start_at "@S"
    gGraft,        \* RevRange.graft_change_num, None when not set
    gPc,           \* "start" before from_start_stop, "done" after, then P2G's steps
    gRevs,         \* the file revision each changelist of the view submitted
    gChanges,      \* the keys of P2G.changes
    gPrinted,      \* PrintHandler.revs: the P4Files 'p4 print' reported, sorted
    gGraftFiles,   \* graft_change.files

    \* ---- SpecDescription: a commit's changelist description and back
    dCommit,       \* the commit read from git fast-export
    dDesc,         \* the changelist description, <<>> before the export
    dOut,          \* what add_commit wrote to the fast-import script
    dPc,           \* "commit", "changelist", "reimported"

    \* ---- SpecRoundTrip: a changelist into Git, back to Perforce, and in again
    tChange,       \* the changelist: path -> [type, content]
    tTree,         \* the commit's tree: path -> [mode, sha1]
    tExport,       \* the exported changelist: path -> [p4type, content]
    tTree2,        \* the tree of the commit made from the exported changelist
    tPc,           \* "changelist", "commit", "exported", "reimported", "raised"

    \* ---- SpecPath: one path from git fast-export through the Parser
    ptPath,        \* the path of the file in the commit, a sequence of bytes
    ptText,        \* Parser.text from Parser.offset on
    ptToken,       \* what get_path_token returned
    ptExc,         \* the exception get_path_token raised, or "none"
    ptPc,          \* "start", "written" by fast-export, "parsed"

    \* ---- SpecInit: processes in _maybe_perform_init on one pair of counters
    piStarted,     \* the started counter (0 when it does not exist)
    piComplete,    \* the complete counter
    piPc,          \* per process: where it is in _maybe_perform_init
    piCheckTimes,  \* per process: check_times
    piInited,      \* per process: inited
    piAlive,       \* per process: FALSE once the process died
    piFuncDone     \* how many runs of func(p4) have finished

checkVars == <<ckGood, ckLast, ckFirst, ckView, ckNext, ckQuery, ckRet, ckRaised, ckChecked>>

exportVars == <<xPc, xTotal, xIdx, xCur, xAuthor, xChanges, xOpened, xNonEmpty, xUnknownGit,
                xUsers, xGood, xLast, xFirst, xRet, xMarks, xMirror, xFlushed,
                xExc, xMsg, xPre, xPreAtCheck>>

replayVars == <<rPc, rBlobs, rIdx, rOps, rOpened, rLocal, rExc, rLog>>

lockVars == <<lkCounter, lkHeartbeat, lkHeartbeatPid, lkNow, lkPc, lkHas, lkStart, lkBeatTime,
              lkStealing, lkReclaimed, lkStolen, lkAuto, lkPace, lkPaceTime>>

checkpointVars == <<cpMode, cpTotal, cpPc, cpIdx, cpLock, cpBeat, cpDone, cpExc, cpZeroAt, cpLostAt>>

mirrorVars == <<mDepot, mOpened, mPc, mObjects, mHandler, mNotAdded, mSeen, mStored, mSessions>>

importVars == <<imPc, imNew, imAdded, imPrior, imMaster, imTemp, imAttached, imExc,
               imP4Empty, imEmptyRepo, imChanges, imKeys, imScript, imLast>>

serveVars == <<svPc, svRequests, svTemplate, svClient, svDir, svHave, svLock, svStatus,
               svCreated, svExc>>

graftVars == <<gView, gStart, gGraft, gPc, gRevs, gChanges, gPrinted, gGraftFiles>>

descriptionVars == <<dCommit, dDesc, dOut, dPc>>

roundTripVars == <<tChange, tTree, tExport, tTree2, tPc>>

pathVars == <<ptPath, ptText, ptToken, ptExc, ptPc>>

initVars == <<piStarted, piComplete, piPc, piCheckTimes, piInited, piAlive, piFuncDone>>

vars == <<checkVars, exportVars, replayVars, lockVars, checkpointVars, mirrorVars, importVars, serveVars, graftVars, descriptionVars, roundTripVars, pathVars, initVars>>

\* What each specification leaves alone.
CkFrame == UNCHANGED <<exportVars, replayVars, lockVars, checkpointVars, mirrorVars, importVars, serveVars, graftVars, descriptionVars, roundTripVars, pathVars, initVars>>

XFrame == UNCHANGED <<checkVars, replayVars, lockVars, checkpointVars, mirrorVars, importVars, serveVars, graftVars, descriptionVars, roundTripVars, pathVars, initVars>>

RFrame == UNCHANGED <<checkVars, exportVars, lockVars, checkpointVars, mirrorVars, importVars, serveVars, graftVars, descriptionVars, roundTripVars, pathVars, initVars>>

LkFrame == UNCHANGED <<checkVars, exportVars, replayVars, checkpointVars, mirrorVars, importVars, serveVars, graftVars, descriptionVars, roundTripVars, pathVars, initVars>>

CpFrame == UNCHANGED <<checkVars, exportVars, replayVars, lockVars, mirrorVars, importVars, serveVars, graftVars, descriptionVars, roundTripVars, pathVars, initVars>>

MFrame == UNCHANGED <<checkVars, exportVars, replayVars, lockVars, checkpointVars, importVars, serveVars, graftVars, descriptionVars, roundTripVars, pathVars, initVars>>

ImFrame == UNCHANGED <<checkVars, exportVars, replayVars, lockVars, checkpointVars, mirrorVars, serveVars, graftVars, descriptionVars, roundTripVars, pathVars, initVars>>

SvFrame == UNCHANGED <<checkVars, exportVars, replayVars, lockVars, checkpointVars, mirrorVars, importVars, graftVars, descriptionVars, roundTripVars, pathVars, initVars>>

GFrame == UNCHANGED <<checkVars, exportVars, replayVars, lockVars, checkpointVars, mirrorVars, importVars, serveVars, descriptionVars, roundTripVars, pathVars, initVars>>

DFrame == UNCHANGED <<checkVars, exportVars, replayVars, lockVars, checkpointVars, mirrorVars, importVars, serveVars, graftVars, roundTripVars, pathVars, initVars>>

TFrame == UNCHANGED <<checkVars, exportVars, replayVars, lockVars, checkpointVars, mirrorVars, importVars, serveVars, graftVars, descriptionVars, pathVars, initVars>>

PtFrame == UNCHANGED <<checkVars, exportVars, replayVars, lockVars, checkpointVars, mirrorVars, importVars, serveVars, graftVars, descriptionVars, roundTripVars, initVars>>

PiFrame == UNCHANGED <<checkVars, exportVars, replayVars, lockVars, checkpointVars, mirrorVars, importVars, serveVars, graftVars, descriptionVars, roundTripVars, pathVars>>

(***************************************************************************)
(* Python values                                                           *)
(***************************************************************************)
\* Python's None. Changelist numbers are >= 1 and list indexes >= 0, so -1
\* is free.
None == -1

\* Truth value of a changelist number as Python tests it ("if x:"): the
\* numbers are non-empty strings, only None is false.
Truthy(x) == x # None

Range(s) == {s[i] : i \in DOMAIN s}

Reverse(s) == [i \in 1..Len(s) |-> s[Len(s) + 1 - i]]

LastN(s, n) == IF Len(s) <= n THEN s ELSE SubSeq(s, Len(s) - n + 1, Len(s))

\* Strictly increasing sequences over 1..hi of length 0..maxlen.
(***************************************************************************)
(* Bounds of the model                                                     *)
(***************************************************************************)
\* SpecCheck: changelist numbers the server hands out.
MaxChange == 7

\* SpecExport: commands of one push, and changelists other writers submit
\* while it runs.
MaxCommands == 3

MaxForeign == 6

(***************************************************************************)
(* G2PConflictChecker                                                      *)
(***************************************************************************)
\* check(): "-m5: don't fetch more than 5 changes."
QueryWindow == 5

CommitChange(sha1, change) ==
    [git_commit_sha1 |-> sha1, p4_changelist_number |-> change]

\* 'p4 changes -m5 -ssubmitted //client/...@L,2030/12/31': the newest
\* QueryWindow submitted changelists of the view numbered L or more, newest
\* first. view is ascending.
P4Changes(view, from) ==
    Reverse(LastN(SelectSeq(view, LAMBDA c : c >= from), QueryWindow))

\* check() builds the revision range from last_good_change_number, @0 when
\* it is not set.
QueryFrom(last_good) == IF Truthy(last_good) THEN last_good ELSE 0

\* "Skip old "good" elements that occur before the start of "changes"
\* history."
RECURSIVE SkipOldGood(_, _)
SkipOldGood(good, changes) ==
    IF Len(good) > 0 /\ ~(Head(good) \in Range(changes))
    THEN SkipOldGood(Tail(good), changes)
    ELSE good

\* The lock-step walk without the exit for changes left over after good is
\* exhausted.
RECURSIVE LockStep_ignore_leftover(_, _, _)
LockStep_ignore_leftover(good, changes, good_index) ==
    IF Len(good) > 0 /\ Len(changes) > 0
    THEN IF Head(good) = Head(changes)
         THEN LockStep_ignore_leftover(Tail(good), Tail(changes), good_index + 1)
         ELSE good_index
    ELSE IF Len(good) > 0 THEN good_index
    ELSE None

\* The lock-step walk and the three exits after it. good and changes are
\* changelist numbers, oldest first.
RECURSIVE LockStep(_, _, _)
LockStep(good, changes, good_index) ==
    IF Len(good) > 0 /\ Len(changes) > 0
    THEN IF Head(good) = Head(changes)
         THEN LockStep(Tail(good), Tail(changes), good_index + 1)
         ELSE good_index
    ELSE IF Len(good) > 0 THEN good_index
    ELSE IF Len(changes) > 0 THEN good_index
    ELSE None

\* find_conflict_index(changelist_list_): changelist_list_ is newest first.
find_conflict_index(self_good, changelist_list_) ==
    LET changes == Reverse(changelist_list_)
        good    == [i \in 1..Len(self_good) |-> self_good[i].p4_changelist_number]
    IN  LockStep(SkipOldGood(good, changes), changes, 0)

\* find_conflict_index's write to self.last_good_change_number: only on the
\* no-conflict exit and only when self.good is not empty.
LastGoodAfter(self_good, last_good, index) ==
    IF index = None /\ Len(self_good) > 0
    THEN self_good[Len(self_good)].p4_changelist_number
    ELSE last_good

\* check(): what it returns and whether "self.good[self.first_conflict_index]"
\* raises. The index returned by find_conflict_index counts positions of its
\* local copy of good; check() uses it on self.good.
check(self_good, last_good, view) ==
    LET changelist_list == P4Changes(view, QueryFrom(last_good))
        index           == find_conflict_index(self_good, changelist_list)
    IN  [ query                   |-> changelist_list,
          first_conflict_index    |-> index,
          last_good_change_number |-> LastGoodAfter(self_good, last_good, index),
          raised |-> IF index # None /\ index >= Len(self_good)
                     THEN "IndexError" ELSE "none",
          ret    |-> IF index = None \/ index >= Len(self_good)
                     THEN None
                     ELSE self_good[index + 1].p4_changelist_number ]

has_conflict(first_conflict_index) == first_conflict_index # None

(***************************************************************************)
(* SpecCheck: a G2PConflictChecker, its caller and the server              *)
(***************************************************************************)
\* __init__: good holds the pair of HEAD when HEAD is a mirrored commit,
\* and nothing for a brand-new HEAD. The view holds the changelists that
\* led to HEAD.
CkInit ==
    \E head \in 0..2 :
        /\ ckView = [i \in 1..head |-> i]
        /\ ckNext = head + 1
        /\ ckGood = IF head = 0 THEN <<>> ELSE <<CommitChange(head, head)>>
        /\ ckLast = IF head = 0 THEN None ELSE head
        /\ ckFirst = None
        /\ ckQuery = <<>>
        /\ ckRet = None
        /\ ckRaised = "none"
        /\ ckChecked = FALSE

\* The caller submits a changelist in the view and records it:
\* record_commit(commit_sha1, changelist_number).
CkRecordCommit ==
    /\ CkFrame
    /\ ckNext <= MaxChange
    /\ ckView' = Append(ckView, ckNext)
    /\ ckGood' = Append(ckGood, CommitChange(ckNext, ckNext))
    /\ ckNext' = ckNext + 1
    /\ ckChecked' = FALSE
    /\ UNCHANGED <<ckLast, ckFirst, ckQuery, ckRet, ckRaised>>

\* Somebody else submits a changelist in the view.
CkForeignSubmit ==
    /\ CkFrame
    /\ ckNext <= MaxChange
    /\ ckView' = Append(ckView, ckNext)
    /\ ckNext' = ckNext + 1
    /\ ckChecked' = FALSE
    /\ UNCHANGED <<ckGood, ckLast, ckFirst, ckQuery, ckRet, ckRaised>>

\* A changelist outside the view (another project, the object mirror) takes
\* a number.
CkOtherSubmit ==
    /\ CkFrame
    /\ ckNext <= MaxChange
    /\ ckNext' = ckNext + 1
    /\ ckChecked' = FALSE
    /\ UNCHANGED <<ckGood, ckLast, ckFirst, ckView, ckQuery, ckRet, ckRaised>>

CkCheck ==
    LET r == check(ckGood, ckLast, ckView) IN
    /\ CkFrame
    /\ ckQuery' = r.query
    /\ ckFirst' = r.first_conflict_index
    /\ ckLast' = r.last_good_change_number
    /\ ckRet' = r.ret
    /\ ckRaised' = r.raised
    /\ ckChecked' = TRUE
    /\ UNCHANGED <<ckGood, ckView, ckNext>>

CkNext ==
    \/ CkRecordCommit
    \/ CkForeignSubmit
    \/ CkOtherSubmit
    \/ CkCheck

\* The checker's variables while another specification runs.
CkIdle ==
    /\ ckGood = <<>>
    /\ ckLast = None
    /\ ckFirst = None
    /\ ckView = <<>>
    /\ ckNext = 1
    /\ ckQuery = <<>>
    /\ ckRet = None
    /\ ckRaised = "none"
    /\ ckChecked = FALSE

(***************************************************************************)
(* UserMap (p4gf_usermap.py)                                               *)
(***************************************************************************)
NoUser == [p4user |-> "None", email |-> "None"]

P4GF_USER == "git-fusion-user"

P4GF_UNKNOWN_USER == "unknown_git"

\* read_user_map(): the lines of //.git-fusion/users/p4gf_usermap. The
\* administrator writes them; nothing checks that the account exists.
UserMapFile ==
    << [p4user |-> "alice", email |-> "alice@git"],
       [p4user |-> "ghost", email |-> "ghost@git"] >>

\* get_p4_users(): 'p4 users'.
P4Users(unknown_git) ==
    << [p4user |-> "alice", email |-> "alice@p4"],
       [p4user |-> "bob",   email |-> "bob@p4"] >>
    \o (IF unknown_git
        THEN << [p4user |-> P4GF_UNKNOWN_USER, email |-> "unknown@p4"] >>
        ELSE <<>>)

\* find_by_tuple_index(index, find_value, users): the first match.
find_by_tuple_index(index, find_value, users) ==
    LET hits == {i \in DOMAIN users : users[i][index] = find_value}
    IN  IF hits = {} THEN NoUser
        ELSE users[CHOOSE i \in hits : \A j \in hits : i <= j]

\* UserMap._lookup_by_tuple_index(index, value): the user found and
\* self.users afterwards.
lookup_by_tuple_index(index, value, self_users, p4users) ==
    LET users  == IF Len(self_users) = 0 THEN UserMapFile ELSE self_users
        mapped == find_by_tuple_index(index, value, users)
        inP4   == find_by_tuple_index(index, value, p4users)
        user   == IF inP4 # NoUser THEN inP4
                  ELSE find_by_tuple_index("p4user", P4GF_UNKNOWN_USER, p4users)
    IN  IF mapped # NoUser THEN [user |-> mapped, users |-> users]
        ELSE [user  |-> user,
              users |-> IF user # NoUser THEN Append(users, user) ELSE users]

lookup_by_email(addr, self_users, p4users) ==
    lookup_by_tuple_index("email", addr, self_users, p4users)

p4user_exists(p4user, p4users) ==
    find_by_tuple_index("p4user", p4user, p4users) # NoUser

(***************************************************************************)
(* G2P.copy and G2P.copy_commit (p4gf_copy_to_p4.py)                       *)
(***************************************************************************)
Command(command, merge, email, files, names_ok) ==
    [command |-> command, merge |-> merge, email |-> email, files |-> files,
     names_ok |-> names_ok]

NoCommand == Command("none", FALSE, "", "none", TRUE)

\* What Parser.get_command can yield: 'reset', and 'commit' with or without
\* a 'merge' line, with an author, with or without file changes, with or
\* without a path holding '...'.
CommandKinds ==
    { Command("reset",  FALSE, "",          "none", TRUE),
      Command("commit", FALSE, "alice@git", "some", TRUE),
      Command("commit", FALSE, "alice@git", "none", TRUE),
      Command("commit", TRUE,  "alice@git", "some", TRUE),
      Command("commit", FALSE, "bob@p4",    "some", TRUE),
      Command("commit", FALSE, "ghost@git", "some", TRUE),
      Command("commit", FALSE, "eve@git",   "some", TRUE),
      Command("commit", FALSE, "alice@git", "some", FALSE) }

\* Change with every submit made for the first commit of the push.
ChangeFirstCommit(by, commit, user) ==
    [by |-> by, commit |-> IF by = "own" THEN 1 ELSE commit, user |-> user]

Change(by, commit, user) == [by |-> by, commit |-> commit, user |-> user]

\* Changelist numbers of the view, ascending.
ViewNumbers(changes) == [i \in 1..Len(changes) |-> i]

OwnChanges(changes) == {i \in DOMAIN changes : changes[i].by = "own"}

ForeignChanges(changes) == {i \in DOMAIN changes : changes[i].by = "foreign"}

\* The changelist submitted for a commit, None when there is none.
ChangeOfCommit(changes, commit) ==
    LET hits == {i \in OwnChanges(changes) : changes[i].commit = commit}
    IN  IF hits = {} THEN None ELSE CHOOSE i \in hits : TRUE

\* RejectsMerge with the merge test left out.
RejectsMergeNever(commit) == FALSE

\* copy_commit: "if 'merge' in commit".
RejectsMerge(commit) == commit.merge

\* copy_commit: "if (user is None) or (not self.usermap.p4user_exists(user[0]))".
RejectsUser(user, p4users) ==
    user = NoUser \/ ~p4user_exists(user.p4user, p4users)

\* copy_commit: check_valid_filename(blob['path']) of every file.
RejectsFilename(commit) == ~commit.names_ok

\* SubmitNeeded without the test of 'p4 opened': every commit is submitted.
SubmitNeededAlways(opened) == TRUE

\* SubmitNeeded taking every commit for an empty one.
SubmitNeededNever(opened) == FALSE

\* copy_commit: "opened = self.ctx.p4.run('opened'); if opened:".
SubmitNeeded(opened) == opened # {}

\* BreakOnConflict without the break: the loop goes on after a conflict.
BreakOnConflictNever(check_result) == FALSE

\* copy: "if conflict_checker.check(): ... break".
BreakOnConflict(check_result) == Truthy(check_result)

\* add_commits with a loop over marks that skips the first one.
add_commits_skip_first(marks) ==
    {[sha1 |-> marks[i].sha1, change |-> marks[i].change] : i \in DOMAIN marks \ {1}}

\* GitMirror.add_commits(marks): one commit object per mark.
add_commits(marks) ==
    {[sha1 |-> marks[i].sha1, change |-> marks[i].change] : i \in DOMAIN marks}

\* The state copy() starts in. HEAD, when there is one, is commit 0; it was
\* copied before and has its commit object in the mirror.
XInit ==
    \E head \in BOOLEAN, total \in 1..MaxCommands, unknown_git \in BOOLEAN :
        /\ xPc = "construct"
        /\ xTotal = total
        /\ xIdx = 0
        /\ xCur = NoCommand
        /\ xAuthor = "None"
        /\ xChanges = IF head THEN <<Change("head", 0, "alice")>> ELSE <<>>
        /\ xMirror = IF head THEN {[sha1 |-> 0, change |-> 1]} ELSE {}
        /\ xOpened = {}
        /\ xNonEmpty = {}
        /\ xUnknownGit = unknown_git
        /\ xUsers = <<>>
        /\ xGood = <<>>
        /\ xLast = None
        /\ xFirst = None
        /\ xRet = None
        /\ xMarks = <<>>
        /\ xFlushed = FALSE
        /\ xExc = "none"
        /\ xMsg = ""
        /\ xPre = 0
        /\ xPreAtCheck = 0

\* revert_and_raise(errmsg): revert what is opened, raise RuntimeError.
\* remove_added_files acts on the local tree only, see SpecReplay.
RevertAndRaise(errmsg) ==
    /\ xOpened' = {}
    /\ xExc' = "RuntimeError"
    /\ xMsg' = errmsg
    /\ xPc' = "finally"

\* copy(): attempt_resync, G2PConflictChecker(ctx), FastExport.run.
\* G2PConflictChecker.__init__ seeds good from the mirror's commit object of
\* HEAD.
XConstruct ==
    /\ XFrame
    /\ xPc = "construct"
    /\ LET heads == {o \in xMirror : o.sha1 = 0} IN
       IF heads = {}
       THEN UNCHANGED <<xGood, xLast>>
       ELSE LET o == CHOOSE o \in heads : TRUE IN
            /\ xGood' = <<CommitChange(o.sha1, o.change)>>
            /\ xLast' = o.change
    /\ xPc' = "loop"
    /\ UNCHANGED <<xTotal, xIdx, xCur, xAuthor, xChanges, xOpened, xNonEmpty,
                   xUnknownGit, xUsers, xFirst, xRet, xMarks, xMirror, xFlushed,
                   xExc, xMsg, xPre, xPreAtCheck>>

\* Another writer submits a changelist in the project's view while copy()
\* runs, after the conflict checker was constructed.
XForeignSubmit ==
    /\ XFrame
    /\ xPc \notin {"construct", "done"}
    /\ Cardinality(ForeignChanges(xChanges)) < MaxForeign
    /\ xChanges' = Append(xChanges, Change("foreign", 0, "carol"))
    /\ xPre' = IF xPc \in {"save", "check"} THEN xPre ELSE xPre + 1
    /\ UNCHANGED <<xPc, xTotal, xIdx, xCur, xAuthor, xOpened, xNonEmpty,
                   xUnknownGit, xUsers, xGood, xLast, xFirst, xRet, xMarks,
                   xMirror, xFlushed, xExc, xMsg, xPreAtCheck>>

\* copy(): "for command in fe.commands", a 'reset' is passed over.
XNextCommand ==
    /\ XFrame
    /\ xPc = "loop"
    /\ xIdx < xTotal
    /\ \E command \in CommandKinds :
        /\ xCur' = command
        /\ xPc' = IF command.command = "commit" THEN "heartbeat" ELSE "loop"
    /\ xIdx' = xIdx + 1
    /\ UNCHANGED <<xTotal, xAuthor, xChanges, xOpened, xNonEmpty, xUnknownGit,
                   xUsers, xGood, xLast, xFirst, xRet, xMarks, xMirror, xFlushed,
                   xExc, xMsg, xPre, xPreAtCheck>>

\* copy(): the for loop is exhausted.
XLoopEnd ==
    /\ XFrame
    /\ xPc = "loop"
    /\ xIdx = xTotal
    /\ xPc' = "finally"
    /\ UNCHANGED <<xTotal, xIdx, xCur, xAuthor, xChanges, xOpened, xNonEmpty,
                   xUnknownGit, xUsers, xGood, xLast, xFirst, xRet, xMarks,
                   xMirror, xFlushed, xExc, xMsg, xPre, xPreAtCheck>>

\* copy(): self.ctx.heartbeat(). Context.heartbeat raises when the lock
\* counter was cleared.
XHeartbeat ==
    /\ XFrame
    /\ xPc = "heartbeat"
    /\ \E canceled \in BOOLEAN :
        IF canceled
        THEN /\ xExc' = "RuntimeError"
             /\ xMsg' = "canceled"
             /\ xPc' = "finally"
        ELSE /\ xPc' = "copy_commit"
             /\ UNCHANGED <<xExc, xMsg>>
    /\ UNCHANGED <<xTotal, xIdx, xCur, xAuthor, xChanges, xOpened, xNonEmpty,
                   xUnknownGit, xUsers, xGood, xLast, xFirst, xRet, xMarks,
                   xMirror, xFlushed, xPre, xPreAtCheck>>

\* copy_commit, up to and including check_protects.
XCopyCommit ==
    /\ XFrame
    /\ xPc = "copy_commit"
    /\ LET found == lookup_by_email(xCur.email, xUsers, P4Users(xUnknownGit)) IN
       IF RejectsMerge(xCur)
       THEN /\ RevertAndRaise("merge")
            /\ UNCHANGED <<xUsers, xAuthor>>
       ELSE /\ xUsers' = found.users
            /\ IF RejectsUser(found.user, P4Users(xUnknownGit))
               THEN /\ RevertAndRaise("user")
                    /\ UNCHANGED xAuthor
               ELSE /\ xAuthor' = found.user.p4user
                    /\ IF RejectsFilename(xCur)
                       THEN RevertAndRaise("filename")
                       ELSE \E denied \in BOOLEAN :
                               IF denied
                               THEN RevertAndRaise("protects")
                               ELSE /\ xPc' = "replay"
                                    /\ UNCHANGED <<xOpened, xExc, xMsg>>
    /\ UNCHANGED <<xTotal, xIdx, xCur, xChanges, xNonEmpty, xUnknownGit, xGood,
                   xLast, xFirst, xRet, xMarks, xMirror, xFlushed, xPre,
                   xPreAtCheck>>

\* copy_commit: "try: self.copy_blobs(commit['files']) except P4.P4Exception".
\* A P4Exception and a cannot-open message (check_p4_messages) both end in
\* revert_and_raise; any other exception leaves copy_commit as it is, with
\* whatever the commands before it opened.
XReplay ==
    /\ XFrame
    /\ xPc = "replay"
    /\ \/ /\ xOpened' = IF xCur.files = "some" THEN xOpened \cup {xIdx} ELSE xOpened
          /\ xNonEmpty' = IF xCur.files = "some" THEN xNonEmpty \cup {xIdx} ELSE xNonEmpty
          /\ xPc' = "submit"
          /\ UNCHANGED <<xExc, xMsg>>
       \/ /\ xCur.files = "some"
          /\ \E errmsg \in {"p4", "cannot open"} : RevertAndRaise(errmsg)
          /\ UNCHANGED xNonEmpty
       \/ /\ xCur.files = "some"
          /\ \E opened \in BOOLEAN :
                xOpened' = IF opened THEN xOpened \cup {xIdx} ELSE xOpened
          /\ xExc' = "OSError"
          /\ xMsg' = "os"
          /\ xPc' = "finally"
          /\ UNCHANGED xNonEmpty
    /\ UNCHANGED <<xTotal, xIdx, xCur, xAuthor, xChanges, xUnknownGit, xUsers,
                   xGood, xLast, xFirst, xRet, xMarks, xMirror, xFlushed, xPre,
                   xPreAtCheck>>

\* copy_commit: p4 opened, then p4_submit's "p4.run('submit', '-d', desc)",
\* or "return None" for an empty commit.
XSubmit ==
    /\ XFrame
    /\ xPc = "submit"
    /\ IF SubmitNeeded(xOpened)
       THEN \/ /\ xChanges' = Append(xChanges, Change("own", xIdx, P4GF_USER))
               /\ xOpened' = {}
               /\ xPc' = "save"
               /\ UNCHANGED <<xExc, xMsg>>
            \/ /\ RevertAndRaise("p4")
               /\ UNCHANGED xChanges
       ELSE /\ xPc' = "loop"
            /\ UNCHANGED <<xChanges, xOpened, xExc, xMsg>>
    /\ UNCHANGED <<xTotal, xIdx, xCur, xAuthor, xNonEmpty, xUnknownGit, xUsers,
                   xGood, xLast, xFirst, xRet, xMarks, xMirror, xFlushed, xPre,
                   xPreAtCheck>>

\* p4_submit: fetch_change, set User and Date, save_change -f.
XSaveChange ==
    /\ XFrame
    /\ xPc = "save"
    /\ \/ /\ xChanges' = [xChanges EXCEPT
                            ![ChangeOfCommit(xChanges, xIdx)].user = xAuthor]
          /\ xPc' = "check"
          /\ UNCHANGED <<xOpened, xExc, xMsg>>
       \/ /\ RevertAndRaise("p4")
          /\ UNCHANGED xChanges
    /\ UNCHANGED <<xTotal, xIdx, xCur, xAuthor, xNonEmpty, xUnknownGit, xUsers,
                   xGood, xLast, xFirst, xRet, xMarks, xMirror, xFlushed, xPre,
                   xPreAtCheck>>

\* copy(): conflict_checker.record_commit(sha1, change), then
\* conflict_checker.check().
XCheck ==
    /\ XFrame
    /\ xPc = "check"
    /\ LET good == Append(xGood, CommitChange(xIdx, ChangeOfCommit(xChanges, xIdx)))
           r    == check(good, xLast, ViewNumbers(xChanges))
       IN  /\ xGood' = good
           /\ xLast' = r.last_good_change_number
           /\ xFirst' = r.first_conflict_index
           /\ xRet' = r.ret
           /\ IF r.raised # "none"
              THEN /\ xExc' = r.raised
                   /\ xMsg' = "check"
                   /\ xPc' = "finally"
              ELSE /\ xPc' = "checked"
                   /\ UNCHANGED <<xExc, xMsg>>
    /\ xPreAtCheck' = xPre
    /\ xPre' = 0
    /\ UNCHANGED <<xTotal, xIdx, xCur, xAuthor, xChanges, xOpened, xNonEmpty,
                   xUnknownGit, xUsers, xMarks, xMirror, xFlushed>>

\* copy(): "if conflict_checker.check(): break", else "marks.append(mark)".
XAfterCheck ==
    /\ XFrame
    /\ xPc = "checked"
    /\ IF BreakOnConflict(xRet)
       THEN /\ xPc' = "finally"
            /\ UNCHANGED xMarks
       ELSE /\ xMarks' = Append(xMarks, [change |-> ChangeOfCommit(xChanges, xIdx),
                                        sha1 |-> xIdx])
            /\ xPc' = "loop"
    /\ UNCHANGED <<xTotal, xIdx, xCur, xAuthor, xChanges, xOpened, xNonEmpty,
                   xUnknownGit, xUsers, xGood, xLast, xFirst, xRet, xMirror,
                   xFlushed, xExc, xMsg, xPre, xPreAtCheck>>

\* copy(): the finally block (mirror.add_commits, mirror.add_objects_to_p4),
\* then "if conflict_checker.has_conflict(): raise RuntimeError". An
\* exception of the flush replaces the one in flight.
XFinally ==
    /\ XFrame
    /\ xPc = "finally"
    /\ \/ /\ xMirror' = xMirror \cup add_commits(xMarks)
          /\ xFlushed' = TRUE
          /\ IF xExc = "none" /\ has_conflict(xFirst)
             THEN /\ xExc' = "RuntimeError"
                  /\ xMsg' = "conflict"
             ELSE UNCHANGED <<xExc, xMsg>>
       \/ /\ xExc' = "P4Exception"
          /\ xMsg' = "mirror"
          /\ UNCHANGED <<xMirror, xFlushed>>
    /\ xPc' = "done"
    /\ UNCHANGED <<xTotal, xIdx, xCur, xAuthor, xChanges, xOpened, xNonEmpty,
                   xUnknownGit, xUsers, xGood, xLast, xFirst, xRet, xMarks, xPre,
                   xPreAtCheck>>

XNext ==
    \/ XConstruct
    \/ XForeignSubmit
    \/ XNextCommand
    \/ XLoopEnd
    \/ XHeartbeat
    \/ XCopyCommit
    \/ XReplay
    \/ XSubmit
    \/ XSaveChange
    \/ XCheck
    \/ XAfterCheck
    \/ XFinally

\* The exporter's variables while another specification runs.
XIdle ==
    /\ xPc = "idle"
    /\ xTotal = 0
    /\ xIdx = 0
    /\ xCur = NoCommand
    /\ xAuthor = "None"
    /\ xChanges = <<>>
    /\ xMirror = {}
    /\ xOpened = {}
    /\ xNonEmpty = {}
    /\ xUnknownGit = FALSE
    /\ xUsers = <<>>
    /\ xGood = <<>>
    /\ xLast = None
    /\ xFirst = None
    /\ xRet = None
    /\ xMarks = <<>>
    /\ xFlushed = FALSE
    /\ xExc = "none"
    /\ xMsg = ""
    /\ xPre = 0
    /\ xPreAtCheck = 0

(***************************************************************************)
(* copy_commit's file replay (p4gf_copy_to_p4.py)                          *)
(***************************************************************************)
MaxBlobs == 3

\* The actions of a blob as fast-export gives them; 'M' on a path the
\* workspace has is an edit, on a path it does not have an add.
BlobKinds == {"R", "C", "Madd", "Medit", "D"}

\* The file type add_or_edit_blob computes for an 'M' blob, "" for None:
\* p4type_from_mode for an add, _toggle_filetype for an edit.
BlobTypes == {"", "+x", "symlink"}

\* The path a blob opens: blob i works on path i, a rename or a copy on
\* the source i and the target i + MaxBlobs.
Blob(kind, i, p4type) ==
    [action |-> kind, path |-> i, topath |-> i + MaxBlobs, p4type |-> p4type]

TypedKinds ==
    {kt \in BlobKinds \X BlobTypes : kt[1] \notin {"Madd", "Medit"} => kt[2] = ""}

BlobSeqs == UNION {[1..n -> TypedKinds] : n \in 1..MaxBlobs}

\* setup_p4_command: one more path under the key 'command' of
\* self.addeditdelete. A key is the operation and the " -t <type>" that
\* add_or_edit_blob appends to it.
setup_p4_command(ops, command, blob) ==
    ops \cup {[op |-> command[1], type |-> command[2], blob |-> blob]}

\* remove_added_files: os.unlink for the paths of the 'add' operations only.
remove_added_files(ops) == {e.blob.path : e \in {o \in ops : o.op = "add"}}

\* One command sent to the server, with the key of self.addeditdelete it
\* was issued for.
P4Command(cmd, type, key, paths) ==
    [cmd |-> cmd, type |-> type, key |-> key, paths |-> paths]

OperationKeys(ops) == {<<e.op, e.type>> : e \in ops}

\* The paths of a key in the order setup_p4_command appended them.
PathsOfKey(ops, key) ==
    SelectSeq([i \in 1..MaxBlobs |-> i],
              LAMBDA i : \E e \in ops : <<e.op, e.type>> = key /\ e.blob.path = i)

\* run_p4_commands, one key: a bulk command per key, every command one
\* for each path of the key.
commands_per_path(ops, key) ==
    LET paths == PathsOfKey(ops, key)
    IN  [j \in 1..Len(paths) |-> P4Command(key[1], key[2], key, {paths[j]})]

\* run_p4_commands, one key: 'move' is an 'edit -k' of all old names and a
\* 'move -k' for each pair; 'edit -t <type>' is an 'edit -k' and a
\* 'reopen -t <type>'; every other key is one command over all its paths.
commands_of_key(ops, key) ==
    LET paths == PathsOfKey(ops, key)
        all   == Range(paths)
    IN  IF key[1] = "move"
        THEN <<P4Command("edit", "", key, all)>>
             \o [j \in 1..Len(paths) |->
                    P4Command("move", "", key, {paths[j], paths[j] + MaxBlobs})]
        ELSE IF key[1] = "edit" /\ key[2] # ""
        THEN <<P4Command("edit", "", key, all), P4Command("reopen", key[2], key, all)>>
        ELSE <<P4Command(key[1], key[2], key, all)>>

\* run_p4_commands that sends one command for every path of every key.
RECURSIVE run_p4_commands_per_path(_, _)
run_p4_commands_per_path(ops, order) ==
    IF order = <<>> THEN <<>>
    ELSE commands_per_path(ops, Head(order)) \o run_p4_commands_per_path(ops, Tail(order))

\* run_p4_commands: the keys of self.addeditdelete in the order of the
\* dict, the commands of each key one after the other.
RECURSIVE run_p4_commands(_, _)
run_p4_commands(ops, order) ==
    IF order = <<>> THEN <<>>
    ELSE commands_of_key(ops, Head(order)) \o run_p4_commands(ops, Tail(order))

\* The orders in which a dict can give its keys.
KeyOrders(keys) ==
    {order \in [1..Cardinality(keys) -> keys] : Range(order) = keys}

RInit ==
    /\ rPc = "pass1"
    /\ \E kinds \in BlobSeqs :
          rBlobs = [i \in DOMAIN kinds |-> Blob(kinds[i][1], i, kinds[i][2])]
    /\ rIdx = 0
    /\ rOps = {}
    /\ rOpened = {}
    /\ rLocal = {}
    /\ rExc = "none"
    /\ rLog = <<>>

\* revert_and_raise: 'p4 revert //client/...', remove_added_files, raise
\* RuntimeError.
RRevertAndRaise ==
    /\ rOpened' = {}
    /\ rLocal' = rLocal \ remove_added_files(rOps)
    /\ rExc' = "RuntimeError"
    /\ rPc' = "exit"

\* An exception that is not a P4.P4Exception passes the except clause of
\* copy_commit: nothing is reverted.
RPropagate(exc, opened, local) ==
    /\ rOpened' = opened
    /\ rLocal' = local
    /\ rExc' = exc
    /\ rPc' = "exit"

\* copy_blobs, first pass, one blob: rename_blob or copy_blob.
RRenameOrCopy ==
    /\ RFrame
    /\ rPc = "pass1"
    /\ rIdx < Len(rBlobs)
    /\ LET blob == rBlobs[rIdx + 1]
           copy == P4Command("copy", "", <<"copy", "">>, {blob.path, blob.topath})
       IN
       CASE blob.action = "R" ->
              \* shutil.copyfile, then setup_p4_command("move", ...)
              \/ /\ rLocal' = rLocal \cup {blob.topath}
                 /\ rOps' = setup_p4_command(rOps, <<"move", "">>, blob)
                 /\ rIdx' = rIdx + 1
                 /\ UNCHANGED <<rPc, rBlobs, rOpened, rExc, rLog>>
              \/ /\ RPropagate("OSError", rOpened, rLocal)
                 /\ UNCHANGED <<rBlobs, rIdx, rOps, rLog>>
         [] blob.action = "C" ->
              \* 'p4 copy -v', then shutil.copyfile
              \/ /\ rOpened' = rOpened \cup {blob.topath}
                 /\ rLocal' = rLocal \cup {blob.topath}
                 /\ rIdx' = rIdx + 1
                 /\ rLog' = Append(rLog, copy)
                 /\ UNCHANGED <<rPc, rBlobs, rOps, rExc>>
              \/ /\ RRevertAndRaise
                 /\ rLog' = Append(rLog, copy)
                 /\ UNCHANGED <<rBlobs, rIdx, rOps>>
              \/ /\ RPropagate("OSError", rOpened \cup {blob.topath}, rLocal)
                 /\ rLog' = Append(rLog, copy)
                 /\ UNCHANGED <<rBlobs, rIdx, rOps>>
         [] OTHER ->
              /\ rIdx' = rIdx + 1
              /\ UNCHANGED <<rPc, rBlobs, rOps, rOpened, rLocal, rExc, rLog>>

\* run_p4_commands: the commands of self.addeditdelete run one after the
\* other, the keys in the order of the dict; each opens its paths. Either
\* all of them run, or one of them fails after the ones before it have run:
\* with a P4Exception or a "cannot open" message (both end in
\* revert_and_raise), or, for 'delete', with the OSError of os.remove.
RRunP4Commands(nextPc) ==
    \E order \in KeyOrders(OperationKeys(rOps)) :
        LET issued == run_p4_commands(rOps, order)
            OpenedUpTo(n) == UNION {issued[j].paths : j \in 1..n}
        IN  \/ /\ rOpened' = rOpened \cup OpenedUpTo(Len(issued))
               /\ rPc' = nextPc
               /\ rIdx' = 0
               /\ rOps' = IF nextPc = "pass2" THEN {} ELSE rOps
               /\ rLog' = rLog \o issued
               /\ UNCHANGED <<rBlobs, rLocal, rExc>>
            \/ \E n \in 1..Len(issued) :
                  /\ RRevertAndRaise
                  /\ rLog' = rLog \o SubSeq(issued, 1, n)
                  /\ UNCHANGED <<rBlobs, rIdx, rOps>>
            \/ \E n \in 1..Len(issued) :
                  /\ issued[n].cmd = "delete"
                  /\ RPropagate("OSError", rOpened \cup OpenedUpTo(n), rLocal)
                  /\ rLog' = rLog \o SubSeq(issued, 1, n)
                  /\ UNCHANGED <<rBlobs, rIdx, rOps>>

RRunFirstPass ==
    /\ RFrame
    /\ rPc = "pass1"
    /\ rIdx = Len(rBlobs)
    /\ RRunP4Commands("pass2")

\* copy_blobs, second pass, one blob: add_or_edit_blob or delete_blob.
RAddEditDelete ==
    /\ RFrame
    /\ rPc = "pass2"
    /\ rIdx < Len(rBlobs)
    /\ UNCHANGED rLog
    /\ LET blob == rBlobs[rIdx + 1] IN
       CASE blob.action = "Madd" ->
              \/ /\ rLocal' = rLocal \cup {blob.path}
                 /\ rOps' = setup_p4_command(rOps, <<"add", blob.p4type>>, blob)
                 /\ rIdx' = rIdx + 1
                 /\ UNCHANGED <<rPc, rBlobs, rOpened, rExc>>
              \/ /\ RPropagate("OSError", rOpened, rLocal)
                 /\ UNCHANGED <<rBlobs, rIdx, rOps>>
         [] blob.action = "Medit" ->
              \/ /\ rOps' = setup_p4_command(rOps, <<"edit", blob.p4type>>, blob)
                 /\ rIdx' = rIdx + 1
                 /\ UNCHANGED <<rPc, rBlobs, rOpened, rLocal, rExc>>
              \/ /\ RPropagate("OSError", rOpened, rLocal)
                 /\ UNCHANGED <<rBlobs, rIdx, rOps>>
         [] blob.action = "D" ->
              /\ rOps' = setup_p4_command(rOps, <<"delete", "">>, blob)
              /\ rIdx' = rIdx + 1
              /\ UNCHANGED <<rPc, rBlobs, rOpened, rLocal, rExc>>
         [] OTHER ->
              /\ rIdx' = rIdx + 1
              /\ UNCHANGED <<rPc, rBlobs, rOps, rOpened, rLocal, rExc>>

RRunSecondPass ==
    /\ RFrame
    /\ rPc = "pass2"
    /\ rIdx = Len(rBlobs)
    /\ RRunP4Commands("exit")

RNext ==
    \/ RRenameOrCopy
    \/ RRunFirstPass
    \/ RAddEditDelete
    \/ RRunSecondPass

RIdle ==
    /\ rPc = "exit"
    /\ rBlobs = <<>>
    /\ rIdx = 0
    /\ rOps = {}
    /\ rOpened = {}
    /\ rLocal = {}
    /\ rExc = "none"
    /\ rLog = <<>>

(***************************************************************************)
(* CounterLock (p4gf_lock.py)                                              *)
(***************************************************************************)
NumProcs == 3
MaxCounter == 3
MaxTime == 60

Procs == 1..NumProcs

LOCK_TIMEOUT_SECS == 10
HEARTBEAT_TIMEOUT_SECS == 60
HEART_RATE == 1

\* check_holder_alive(holder): 'then' is the time field of the heartbeat.
check_holder_alive(then, now) == now < then \/ (now - then) < HEARTBEAT_TIMEOUT_SECS

\* _acquire_attempt taking any value of the counter for the lock.
acquire_attempt_any(value) == value >= 1

\* _acquire_attempt: 'p4 counter -i' returned value; acquired when it is 1.
acquire_attempt(value) == value = 1

\* heartbeat_content: a new content string unless the last one is younger
\* than HEART_RATE.
HeartbeatChanges(heartbeat_time, now) ==
    ~(heartbeat_time # None /\ now - heartbeat_time < HEART_RATE)

\* TimedOut with the comparison left out: acquire gives up at once.
TimedOutAtOnce(timeout_secs, elapsed) == TRUE

\* clear_heartbeat that leaves the heartbeat counter as it is.
clear_heartbeat_skipped(heartbeat) == heartbeat

\* clear_heartbeat: 'p4 counter -u -d <name>_heartbeat'; the heartbeat is
\* the pair of its time and process fields.  The command runs with
\* exceptions suppressed and is taken to succeed.
clear_heartbeat(heartbeat) == <<None, 0>>

\* acquire taking a lock without heartbeat for abandoned as well.
abandoned_or_absent(holder, now) == holder = None \/ ~check_holder_alive(holder, now)

\* acquire: "if holder and not check_holder_alive(holder)", holder being
\* what get_heartbeat() returned.
abandoned(holder, now) == holder # None /\ ~check_holder_alive(holder, now)

\* acquire: "if timeout_secs and timeout_secs <= elapsed".
TimedOut(timeout_secs, elapsed) == timeout_secs # 0 /\ timeout_secs <= elapsed

\* The processes that returned from acquire() with the lock and live.
LkHolders == {p \in Procs : lkPc[p] \in {"held"} /\ lkHas[p]}

\* Every process has called acquire() on a new CounterLock for the same
\* counter: "start = time.time()", no p4 command run yet.
LkInit ==
    /\ lkCounter = 0
    /\ lkHeartbeat = None
    /\ lkHeartbeatPid = 0
    /\ lkNow = 0
    /\ lkPc = [p \in Procs |-> "attempt"]
    /\ lkHas = [p \in Procs |-> FALSE]
    /\ lkStart = [p \in Procs |-> lkNow]
    /\ lkBeatTime = [p \in Procs |-> None]
    /\ lkStealing = [p \in Procs |-> FALSE]
    /\ lkReclaimed = [p \in Procs |-> FALSE]
    /\ lkStolen = FALSE
    /\ lkAuto = FALSE
    /\ lkPace = [p \in Procs |-> "none"]
    /\ lkPaceTime = [p \in Procs |-> None]

\* acquire(): "self.__has__ = self._acquire_attempt()", the atomic
\* 'p4 counter -u -i'.
LkAcquireAttempt(p) ==
    /\ LkFrame
    /\ lkPc[p] = "attempt"
    /\ lkCounter < MaxCounter
    /\ lkCounter' = lkCounter + 1
    /\ lkHas' = [lkHas EXCEPT ![p] = acquire_attempt(lkCounter + 1)]
    /\ lkPc' = [lkPc EXCEPT ![p] = IF acquire_attempt(lkCounter + 1) THEN "acquired" ELSE "waiting"]
    /\ UNCHANGED <<lkHeartbeat, lkHeartbeatPid, lkNow, lkStart, lkBeatTime, lkStealing, lkReclaimed, lkStolen, lkAuto, lkPace, lkPaceTime>>

\* update_heartbeat(): 'p4 counter -u <name>_heartbeat <content>' when the
\* content changed.
LkWriteHeartbeat(p) ==
    IF HeartbeatChanges(lkBeatTime[p], lkNow)
    THEN /\ lkHeartbeat' = lkNow
         /\ lkHeartbeatPid' = p
         /\ lkBeatTime' = [lkBeatTime EXCEPT ![p] = lkNow]
    ELSE UNCHANGED <<lkHeartbeat, lkHeartbeatPid, lkBeatTime>>

\* acquire(), lock acquired: update_heartbeat(), _start_pacemaker() and
\* return.
LkAcquired(p) ==
    /\ LkFrame
    /\ lkPc[p] = "acquired"
    /\ LkWriteHeartbeat(p)
    /\ lkPc' = [lkPc EXCEPT ![p] = "held"]
    /\ lkPace' = [lkPace EXCEPT ![p] = IF lkAuto /\ @ = "none" THEN "test" ELSE @]
    /\ UNCHANGED <<lkCounter, lkNow, lkHas, lkStart, lkStealing, lkReclaimed, lkStolen, lkAuto, lkPaceTime>>

\* acquire(), lock not acquired: get_heartbeat() and check_holder_alive();
\* on a dead holder "self.__has__ = True" and release() starts; otherwise
\* the timeout test, then time.sleep(_RETRY_PERIOD) and the next iteration.
LkCheckHolder(p) ==
    /\ LkFrame
    /\ lkPc[p] = "waiting"
    /\ IF abandoned(lkHeartbeat, lkNow)
       THEN /\ lkHas' = [lkHas EXCEPT ![p] = TRUE]
            /\ lkStealing' = [lkStealing EXCEPT ![p] = TRUE]
            /\ lkPc' = [lkPc EXCEPT ![p] = "clear_heartbeat"]
            /\ lkStolen' = TRUE
       ELSE /\ lkPc' = [lkPc EXCEPT ![p] =
                          IF TimedOut(LOCK_TIMEOUT_SECS, lkNow - lkStart[p])
                          THEN "failed" ELSE "attempt"]
            /\ UNCHANGED <<lkHas, lkStealing, lkStolen>>
    /\ UNCHANGED <<lkCounter, lkHeartbeat, lkHeartbeatPid, lkNow, lkStart, lkBeatTime, lkReclaimed, lkAuto, lkPace, lkPaceTime>>

\* release() called by the holder: "if not self.has(): return False", then
\* clear_heartbeat().
LkRelease(p) ==
    /\ LkFrame
    /\ lkPc[p] \in {"held", "stalled"}
    /\ lkHas[p]
    /\ lkHeartbeat' = clear_heartbeat(<<lkHeartbeat, lkHeartbeatPid>>)[1]
    /\ lkHeartbeatPid' = clear_heartbeat(<<lkHeartbeat, lkHeartbeatPid>>)[2]
    /\ lkPc' = [lkPc EXCEPT ![p] = "delete_counter"]
    /\ lkReclaimed' = [lkReclaimed EXCEPT ![p] = FALSE]
    /\ UNCHANGED <<lkCounter, lkNow, lkHas, lkStart, lkBeatTime, lkStealing, lkStolen, lkAuto, lkPace, lkPaceTime>>

\* release() called by acquire(): clear_heartbeat(),
\* 'p4 counter -u -d <name>_heartbeat'.
LkClearHeartbeat(p) ==
    /\ LkFrame
    /\ lkPc[p] = "clear_heartbeat"
    /\ lkHeartbeat' = clear_heartbeat(<<lkHeartbeat, lkHeartbeatPid>>)[1]
    /\ lkHeartbeatPid' = clear_heartbeat(<<lkHeartbeat, lkHeartbeatPid>>)[2]
    /\ lkPc' = [lkPc EXCEPT ![p] = "delete_counter"]
    /\ UNCHANGED <<lkCounter, lkNow, lkHas, lkStart, lkBeatTime, lkStealing, lkReclaimed, lkStolen, lkAuto, lkPace, lkPaceTime>>

\* release(): 'p4 counter -u -d <name>' and "self.__has__ = False"; in
\* acquire() the loop continues without the timeout test and the sleep,
\* otherwise the process is done with its CounterLock.
LkDeleteCounter(p) ==
    /\ LkFrame
    /\ lkPc[p] = "delete_counter"
    /\ lkCounter' = 0
    /\ lkHas' = [lkHas EXCEPT ![p] = FALSE]
    /\ lkStealing' = [lkStealing EXCEPT ![p] = FALSE]
    /\ lkReclaimed' = [lkReclaimed EXCEPT ![p] = lkStealing[p]]
    /\ lkPc' = [lkPc EXCEPT ![p] = IF lkStealing[p] THEN "attempt" ELSE "released"]
    /\ UNCHANGED <<lkHeartbeat, lkHeartbeatPid, lkNow, lkStart, lkBeatTime, lkStolen, lkAuto, lkPace, lkPaceTime>>

\* update_heartbeat() by the holder, or by its pacemaker.
LkUpdateHeartbeat(p) ==
    /\ LkFrame
    /\ lkPc[p] = "held"
    /\ lkHas[p]
    /\ HeartbeatChanges(lkBeatTime[p], lkNow)
    /\ LkWriteHeartbeat(p)
    /\ UNCHANGED <<lkCounter, lkNow, lkPc, lkHas, lkStart, lkStealing, lkReclaimed, lkStolen, lkAuto, lkPace, lkPaceTime>>

\* The holder's process ends without release(): counter and heartbeat stay.
LkDie(p) ==
    /\ LkFrame
    /\ lkPc[p] = "held"
    /\ lkPc' = [lkPc EXCEPT ![p] = "dead"]
    /\ UNCHANGED <<lkCounter, lkHeartbeat, lkHeartbeatPid, lkNow, lkHas, lkStart, lkBeatTime, lkStealing, lkReclaimed, lkStolen, lkAuto, lkPace, lkPaceTime>>

\* Time passes. A live holder updates its heartbeat regularly (assumption 1
\* at HEARTBEAT_TIMEOUT_SECS): the clock does not leave a live holder's
\* last heartbeat HEARTBEAT_TIMEOUT_SECS behind.
LkTick ==
    /\ LkFrame
    /\ \E d \in {LOCK_TIMEOUT_SECS, HEARTBEAT_TIMEOUT_SECS} :
          /\ lkNow + d <= MaxTime
          /\ \A p \in Procs :
                (lkPc[p] = "held" /\ lkBeatTime[p] # None)
                    => check_holder_alive(lkBeatTime[p], lkNow + d)
          /\ lkNow' = lkNow + d
    /\ UNCHANGED <<lkCounter, lkHeartbeat, lkHeartbeatPid, lkPc, lkHas, lkStart, lkBeatTime, lkStealing, lkReclaimed, lkStolen, lkAuto, lkPace, lkPaceTime>>

LkNext ==
    \/ \E p \in Procs : LkAcquireAttempt(p)
    \/ \E p \in Procs : LkAcquired(p)
    \/ \E p \in Procs : LkCheckHolder(p)
    \/ \E p \in Procs : LkRelease(p)
    \/ \E p \in Procs : LkClearHeartbeat(p)
    \/ \E p \in Procs : LkDeleteCounter(p)
    \/ \E p \in Procs : LkUpdateHeartbeat(p)
    \/ \E p \in Procs : LkDie(p)
    \/ LkTick

LkIdle ==
    /\ lkCounter = 0
    /\ lkHeartbeat = None
    /\ lkHeartbeatPid = 0
    /\ lkNow = 0
    /\ lkPc = [p \in Procs |-> "failed"]
    /\ lkHas = [p \in Procs |-> FALSE]
    /\ lkStart = [p \in Procs |-> 0]
    /\ lkBeatTime = [p \in Procs |-> None]
    /\ lkStealing = [p \in Procs |-> FALSE]
    /\ lkReclaimed = [p \in Procs |-> FALSE]
    /\ lkStolen = FALSE
    /\ lkAuto = FALSE
    /\ lkPace = [p \in Procs |-> "none"]
    /\ lkPaceTime = [p \in Procs |-> None]


(***************************************************************************)
(* A holder that keeps the lock past HEARTBEAT_TIMEOUT_SECS without        *)
(* update_heartbeat(), a process that ends where the heartbeat counter is  *)
(* absent, and the pacemaker of a lock made by view_lock() (p4gf_lock.py)  *)
(***************************************************************************)
NumLiveProcs == 2

\* os.getpid() in the pacemaker process of p.
PacemakerPid(p) == NumProcs + p

\* event.is_set(): p's release() has run _stop_pacemaker().
EventIsSet(p) ==
    lkPc[p] = "released" \/ (lkPc[p] = "delete_counter" /\ ~lkStealing[p])

\* Processes 1..NumLiveProcs call acquire() on CounterLocks of one name,
\* made by view_lock() (auto_beat) or plain.
LkCalled(auto_beat) ==
    /\ lkCounter = 0
    /\ lkHeartbeat = None
    /\ lkHeartbeatPid = 0
    /\ lkNow = 0
    /\ lkPc = [p \in Procs |-> IF p <= NumLiveProcs THEN "attempt" ELSE "absent"]
    /\ lkHas = [p \in Procs |-> FALSE]
    /\ lkStart = [p \in Procs |-> lkNow]
    /\ lkBeatTime = [p \in Procs |-> None]
    /\ lkStealing = [p \in Procs |-> FALSE]
    /\ lkReclaimed = [p \in Procs |-> FALSE]
    /\ lkStolen = FALSE
    /\ lkAuto = auto_beat
    /\ lkPace = [p \in Procs |-> "none"]
    /\ lkPaceTime = [p \in Procs |-> None]

\* CounterLock(p4, name): no autobeat().
LkLiveInit == LkCalled(FALSE)

\* view_lock(p4, view_name): "lock.autobeat()".
LkPaceInit == LkCalled(TRUE)

\* A holder without pacemaker goes on with its work and calls
\* update_heartbeat() no more; release() is still to come.
LkStall(p) ==
    /\ LkFrame
    /\ lkPc[p] = "held"
    /\ lkHas[p]
    /\ lkPace[p] = "none"
    /\ lkPc' = [lkPc EXCEPT ![p] = "stalled"]
    /\ UNCHANGED <<lkCounter, lkHeartbeat, lkHeartbeatPid, lkNow, lkHas, lkStart, lkBeatTime,
                   lkStealing, lkReclaimed, lkStolen, lkAuto, lkPace, lkPaceTime>>

\* The process ends between 'counter -i' and update_heartbeat() in
\* acquire(), or between clear_heartbeat() and 'counter -d' in release().
LkDieWithoutHeartbeat(p) ==
    /\ LkFrame
    /\ lkPc[p] \in {"acquired", "delete_counter"}
    /\ lkPc' = [lkPc EXCEPT ![p] = "ended"]
    /\ UNCHANGED <<lkCounter, lkHeartbeat, lkHeartbeatPid, lkNow, lkHas, lkStart, lkBeatTime,
                   lkStealing, lkReclaimed, lkStolen, lkAuto, lkPace, lkPaceTime>>

\* pacemaker: "while not event.is_set()".
LkPacemakerTest(p) ==
    /\ LkFrame
    /\ lkPace[p] = "test"
    /\ lkPace' = [lkPace EXCEPT ![p] = IF EventIsSet(p) THEN "clear" ELSE "update"]
    /\ UNCHANGED <<lkCounter, lkHeartbeat, lkHeartbeatPid, lkNow, lkPc, lkHas, lkStart, lkBeatTime,
                   lkStealing, lkReclaimed, lkStolen, lkAuto, lkPaceTime>>

\* pacemaker: lock.update_heartbeat() of its heartbeat-only lock, then
\* event.wait(HEART_RATE).
LkPacemakerBeat(p) ==
    /\ LkFrame
    /\ lkPace[p] = "update"
    /\ IF HeartbeatChanges(lkPaceTime[p], lkNow)
       THEN /\ lkHeartbeat' = lkNow
            /\ lkHeartbeatPid' = PacemakerPid(p)
            /\ lkPaceTime' = [lkPaceTime EXCEPT ![p] = lkNow]
       ELSE UNCHANGED <<lkHeartbeat, lkHeartbeatPid, lkPaceTime>>
    /\ lkPace' = [lkPace EXCEPT ![p] = "test"]
    /\ UNCHANGED <<lkCounter, lkNow, lkPc, lkHas, lkStart, lkBeatTime,
                   lkStealing, lkReclaimed, lkStolen, lkAuto>>

\* pacemaker, after the loop: lock.clear_heartbeat().
LkPacemakerClear(p) ==
    /\ LkFrame
    /\ lkPace[p] = "clear"
    /\ lkHeartbeat' = clear_heartbeat(<<lkHeartbeat, lkHeartbeatPid>>)[1]
    /\ lkHeartbeatPid' = clear_heartbeat(<<lkHeartbeat, lkHeartbeatPid>>)[2]
    /\ lkPace' = [lkPace EXCEPT ![p] = "exited"]
    /\ UNCHANGED <<lkCounter, lkNow, lkPc, lkHas, lkStart, lkBeatTime,
                   lkStealing, lkReclaimed, lkStolen, lkAuto, lkPaceTime>>

LkLiveNext ==
    \/ LkNext
    \/ \E p \in Procs : LkStall(p)
    \/ \E p \in Procs : LkDieWithoutHeartbeat(p)

\* The steps of acquire(), release() and the pacemakers while the clock
\* stands and every process lives.
LkPaceNext ==
    \/ \E p \in Procs : LkAcquireAttempt(p)
    \/ \E p \in Procs : LkAcquired(p)
    \/ \E p \in Procs : LkCheckHolder(p)
    \/ \E p \in Procs : LkRelease(p)
    \/ \E p \in Procs : LkDeleteCounter(p)
    \/ \E p \in Procs : LkPacemakerTest(p)
    \/ \E p \in Procs : LkPacemakerBeat(p)
    \/ \E p \in Procs : LkPacemakerClear(p)

(***************************************************************************)
(* Context.heartbeat in the copy loops (p4gf_context.py, p4gf_lock.py,     *)
(* p4gf_copy_to_p4.py, p4gf_copy_to_git.py)                                *)
(***************************************************************************)
MaxItems == 3

MaxLockValue == 2

\* The checkpoint that add_objects_to_p4 runs in the export's finally
\* clause, numbered after every commit's checkpoint.
FlushCheckpoint == MaxItems + 1

\* canceled() that never reports a cleared lock.
canceled_never(value) == FALSE

\* CounterLock.canceled: 'value != "0"' is not canceled.
canceled(value) == value = 0

CpInit ==
    /\ cpMode \in {"export", "import"}
    /\ cpTotal \in 1..MaxItems
    /\ cpPc = "loop"
    /\ cpIdx = 0
    /\ cpLock = 1
    /\ cpBeat = 0
    /\ cpDone = {}
    /\ cpExc = FALSE
    /\ cpZeroAt = None
    /\ cpLostAt = None

CpRunning == cpPc \in {"loop", "checkpoint", "work", "flush", "run_fast_import"}

\* Another process deletes the lock counter: 'p4 counter -u -d'.
CpLockCleared ==
    /\ CpRunning
    /\ cpLock # 0
    /\ cpLock' = 0
    /\ cpLostAt' = IF cpLostAt = None THEN cpIdx ELSE cpLostAt
    /\ UNCHANGED <<cpMode, cpTotal, cpPc, cpIdx, cpBeat, cpDone, cpExc, cpZeroAt>>
    /\ CpFrame

\* Another process tries the lock: 'p4 counter -u -i'.
CpLockIncremented ==
    /\ CpRunning
    /\ cpLock < MaxLockValue
    /\ cpLock' = cpLock + 1
    /\ UNCHANGED <<cpMode, cpTotal, cpPc, cpIdx, cpBeat, cpDone, cpExc, cpZeroAt, cpLostAt>>
    /\ CpFrame

\* "for command in fe.commands" / "for changenum in sorted_changes".
CpNextItem ==
    /\ cpPc = "loop"
    /\ IF cpIdx < cpTotal
       THEN /\ cpIdx' = cpIdx + 1
            /\ cpPc' = "checkpoint"
       ELSE /\ cpPc' = IF cpMode = "export" THEN "flush" ELSE "run_fast_import"
            /\ UNCHANGED cpIdx
    /\ UNCHANGED <<cpMode, cpTotal, cpLock, cpBeat, cpDone, cpExc, cpZeroAt, cpLostAt>>
    /\ CpFrame

\* Context.heartbeat at checkpoint n: raise when canceled(), else
\* update_heartbeat().  Gives the new <<cpBeat, raised>>.
heartbeat(n) ==
    IF canceled(cpLock) THEN <<cpBeat, TRUE>> ELSE <<n, FALSE>>

\* self.ctx.heartbeat() at the top of an iteration.
CpHeartbeat ==
    /\ cpPc = "checkpoint"
    /\ cpZeroAt' = IF cpLock = 0 /\ cpZeroAt = None THEN cpIdx ELSE cpZeroAt
    /\ cpBeat' = heartbeat(cpIdx)[1]
    /\ cpExc' = heartbeat(cpIdx)[2]
    /\ cpPc' = IF heartbeat(cpIdx)[2]
               THEN (IF cpMode = "export" THEN "flush" ELSE "raised")
               ELSE "work"
    /\ UNCHANGED <<cpMode, cpTotal, cpIdx, cpLock, cpDone, cpLostAt>>
    /\ CpFrame

\* copy_commit (a submit, nothing for an empty commit, or an exception) /
\* fastimport.add_commit.
CpWork ==
    /\ cpPc = "work"
    /\ \E outcome \in (IF cpMode = "export" THEN {"submitted", "empty", "raised"}
                                            ELSE {"submitted"}) :
          /\ cpDone' = IF outcome = "submitted" THEN cpDone \cup {cpIdx} ELSE cpDone
          /\ cpExc' = (outcome = "raised")
          /\ cpPc' = IF outcome = "raised" THEN "flush" ELSE "loop"
    /\ UNCHANGED <<cpMode, cpTotal, cpIdx, cpLock, cpBeat, cpZeroAt, cpLostAt>>
    /\ CpFrame

\* The export's finally clause: add_objects_to_p4 runs ctx.heartbeat() for
\* the first object it adds, when the submitted commits left any.
CpFlush ==
    /\ cpPc = "flush"
    /\ IF cpDone = {}
       THEN /\ cpPc' = IF cpExc THEN "raised" ELSE "done"
            /\ UNCHANGED <<cpBeat, cpExc, cpZeroAt, cpLostAt>>
       ELSE /\ cpZeroAt' = IF cpLock = 0 /\ cpZeroAt = None
                           THEN FlushCheckpoint ELSE cpZeroAt
            /\ cpBeat' = heartbeat(FlushCheckpoint)[1]
            /\ cpExc' = (cpExc \/ heartbeat(FlushCheckpoint)[2])
            /\ cpPc' = IF cpExc \/ heartbeat(FlushCheckpoint)[2] THEN "raised" ELSE "done"
    /\ UNCHANGED <<cpMode, cpTotal, cpIdx, cpLock, cpDone, cpLostAt>>
    /\ CpFrame

\* self.fastimport.run_fast_import() after the import loop.
CpRunFastImport ==
    /\ cpPc = "run_fast_import"
    /\ cpPc' = "done"
    /\ UNCHANGED <<cpMode, cpTotal, cpIdx, cpLock, cpBeat, cpDone, cpExc, cpZeroAt, cpLostAt>>
    /\ CpFrame

CpNext ==
    \/ CpLockCleared
    \/ CpLockIncremented
    \/ CpNextItem
    \/ CpHeartbeat
    \/ CpWork
    \/ CpFlush
    \/ CpRunFastImport

CpIdle ==
    /\ cpMode = "export"
    /\ cpTotal = 0
    /\ cpPc = "idle"
    /\ cpIdx = 0
    /\ cpLock = 0
    /\ cpBeat = 0
    /\ cpDone = {}
    /\ cpExc = FALSE
    /\ cpZeroAt = None
    /\ cpLostAt = None

(***************************************************************************)
(* GitMirror and the object store (p4gf_gitmirror.py, p4gf_object_type.py) *)
(*                                                                         *)
(* A path under //.git-fusion/objects is the list of its '-' separated     *)
(* fields: <<sha1, type>> for a tree, <<sha1, "commit", changelist>>       *)
(* followed by the fields of the view name for a commit.  A views          *)
(* attribute is the list of its '#' separated fields; view names are       *)
(* numbers in it, 0 the empty string.                                      *)
(***************************************************************************)
NumViews == 2

NumCommits == 2

MaxSessions == 2

\* The views whose processes run, and a view that mirrored before them.
Views == 1..NumViews

PriorView == NumViews + 1

Commits == 1..NumCommits

\* View v is named "x", "x-x", ...: its name split at '-'.
ViewName(v) == [i \in 1..v |-> "x"]

\* The repositories' content: every commit has its own top tree and holds
\* one subtree that all commits share; commit c of view v is changelist
\* P4Change(v, c).
SharedTree == NumCommits + 1

TopTree(c) == NumCommits + 1 + c

P4Change(v, c) == (c - 1) * (NumViews + 1) + v

GitObject(objtype, sha1, p4changelists) ==
    [type |-> objtype, sha1 |-> sha1, p4changelists |-> p4changelists]

CommitObject(v, c) ==
    GitObject("commit", c, <<[change |-> P4Change(v, c), view_name |-> ViewName(v)]>>)

TreeObject(t) == GitObject("tree", t, <<>>)

\* mirror_path: "{root}objects/{sha1[:2]}/{sha1[2:4]}/{sha1[4:]}-{objtype}".
mirror_path(sha1, objtype) == <<sha1, objtype>>

\* GitObject.git_p4_client_path: "{path}-{changenum}-{viewname}" for a commit.
git_p4_client_path(go) ==
    IF go.type = "commit"
    THEN mirror_path(go.sha1, go.type)
            \o <<go.p4changelists[1].change>> \o go.p4changelists[1].view_name
    ELSE mirror_path(go.sha1, go.type)

AllObjects ==
    {CommitObject(v, c) : v \in Views \cup {PriorView}, c \in Commits}
        \cup {TreeObject(SharedTree)} \cup {TreeObject(TopTree(c)) : c \in Commits}

AllPaths == {git_p4_client_path(go) : go \in AllObjects}

NoObjectType == [sha1 |-> 0, type |-> "none", p4changelists |-> <<>>]

\* _filepath_to_object_type read with only the first '-' field of the view
\* name.
filepath_first_field(filepath) ==
    LET info_list == Tail(filepath)
    IN  IF Len(info_list) = 1
        THEN [sha1 |-> filepath[1], type |-> info_list[1], p4changelists |-> <<>>]
        ELSE IF Len(info_list) >= 3
        THEN [sha1 |-> filepath[1], type |-> info_list[1],
              p4changelists |-> <<[change |-> info_list[2],
                                   view_name |-> <<info_list[3]>>]>>]
        ELSE NoObjectType

\* _filepath_to_object_type: m.group(2).split('-') is <<type>> or
\* <<type, changelist, view name fields...>>; anything else raises.
filepath_to_object_type(filepath) ==
    LET info_list == Tail(filepath)
    IN  IF Len(info_list) = 1
        THEN IF info_list[1] = "commit"
             THEN NoObjectType
             ELSE [sha1 |-> filepath[1], type |-> info_list[1], p4changelists |-> <<>>]
        ELSE IF Len(info_list) >= 3
        THEN [sha1 |-> filepath[1], type |-> info_list[1],
              p4changelists |-> <<[change |-> info_list[2],
                                   view_name |-> SubSeq(info_list, 3, Len(info_list))]>>]
        ELSE NoObjectType

\* ObjectType.view_name_to_changelist.
view_name_to_changelist(ot, view_name) ==
    LET match == SelectSeq(ot.p4changelists, LAMBDA cl : cl.view_name = view_name)
    IN  IF Len(match) = 0 THEN None ELSE match[1].change

\* ObjectType.applies_to_view.
applies_to_view(ot, view_name) ==
    IF ot.type # "commit" THEN TRUE ELSE view_name_to_changelist(ot, view_name) # None

\* _sha1_to_object_type_list_p4: 'p4 files //.git-fusion/objects/<sha1>*'.
sha1_to_object_type_list_p4(sha1, depot) ==
    {f \in AllPaths : depot[f] # <<>> /\ f[1] = sha1}

\* sha1_to_object_type with raise_on_error=False: the one object of the
\* view, NoObjectType for None.
sha1_to_object_type(sha1, view_name, depot) ==
    LET files == sha1_to_object_type_list_p4(sha1, depot)
        matching == {f \in files : applies_to_view(filepath_to_object_type(f), view_name)}
    IN  IF \E f \in files : filepath_to_object_type(f) = NoObjectType
        THEN NoObjectType
        ELSE IF Cardinality(matching) # 1
        THEN NoObjectType
        ELSE filepath_to_object_type(CHOOSE f \in matching : TRUE)

\* GitMirror.get_change_for_commit in the context of view v.
get_change_for_commit(commit, v, depot) ==
    LET object_type == sha1_to_object_type(commit, ViewName(v), depot)
    IN  IF object_type = NoObjectType
        THEN None
        ELSE view_name_to_changelist(object_type, ViewName(v))

\* GitObjectList.add_object that keeps duplicates.
add_object_again(objects, obj_to_add) == Append(objects, obj_to_add)

\* GitObjectList.add_object: "if not key in self.objects".
add_object(objects, obj_to_add) ==
    IF \E i \in DOMAIN objects :
          objects[i].type = obj_to_add.type /\ objects[i].sha1 = obj_to_add.sha1
    THEN objects
    ELSE Append(objects, obj_to_add)

\* GitMirror.add_commits: the commit object, its top tree and the trees
\* that ls-tree / diff-tree list for it.
RECURSIVE mirror_add_commits(_, _, _)
mirror_add_commits(objects, marks, v) ==
    IF marks = <<>>
    THEN objects
    ELSE LET c == Head(marks)
             with_commit == add_object(objects, CommitObject(v, c))
             with_top == add_object(with_commit, TreeObject(TopTree(c)))
         IN  mirror_add_commits(add_object(with_top, TreeObject(SharedTree)),
                                Tail(marks), v)

\* The marks of one mirror operation: the view's history up to a commit.
MarkSeqs == {[i \in 1..n |-> i] : n \in Commits}

\* The paths a finished mirror operation of the prior view left in the
\* depot, each with that view as its views attribute.
PriorPaths ==
    LET objects == mirror_add_commits(<<>>, <<1>>, PriorView)
    IN  {git_p4_client_path(objects[i]) : i \in DOMAIN objects}

NewHandler == [files |-> <<>>, existing |-> <<>>]

\* FilterAddFstatHandler.outputStat that takes the file for a missing one.
outputStat_as_missing(handler, view_name, depotFile, views) ==
    [handler EXCEPT !.files = Append(@, depotFile)]

\* FilterAddFstatHandler.outputStat.
outputStat(handler, view_name, depotFile, views) ==
    IF view_name \notin Range(views)
    THEN [handler EXCEPT !.existing = Append(@, <<depotFile, Append(views, view_name)>>)]
    ELSE handler

\* FilterAddFstatHandler.outputMessage for MsgDm_ExFILE.
outputMessage(handler, depotFile) ==
    [handler EXCEPT !.files = Append(@, depotFile)]

NotOpened == [action |-> "none", views |-> <<>>]

\* 'p4 fstat -Oa -T "depotFile, attr-views"' over the add list.  A file
\* that is only opened for add has no attr-views; the server reports it
\* as a file or as missing (stats_opened).
RECURSIVE run_fstat(_, _, _, _)
run_fstat(handler, view_name, add_files, stats_opened) ==
    IF add_files = <<>>
    THEN handler
    ELSE LET f == Head(add_files)
             next == IF mDepot[f] # <<>>
                     THEN outputStat(handler, view_name, f, mDepot[f])
                     ELSE IF mOpened[f] # NotOpened /\ stats_opened
                     THEN outputStat(handler, view_name, f, <<0>>)
                     ELSE outputMessage(handler, f)
         IN  run_fstat(next, view_name, Tail(add_files), stats_opened)

RECURSIVE InsertSorted(_, _)
InsertSorted(s, x) ==
    IF s = <<>> THEN <<x>>
    ELSE IF x <= Head(s) THEN <<x>> \o s
    ELSE <<Head(s)>> \o InsertSorted(Tail(s), x)

RECURSIVE SortViews(_)
SortViews(s) == IF s = <<>> THEN <<>> ELSE InsertSorted(SortViews(Tail(s)), Head(s))

\* build_view_mapping: the views of every existing file, sorted when there
\* are several.
build_view_mapping(existing_files) ==
    [i \in DOMAIN existing_files |->
        <<existing_files[i][1],
          IF Len(existing_files[i][2]) > 1
          THEN SortViews(existing_files[i][2])
          ELSE existing_files[i][2]>>]

MInit ==
    /\ \E prior \in {{}, PriorPaths} :
          /\ mDepot = [f \in AllPaths |-> IF f \in prior THEN <<PriorView>> ELSE <<>>]
          /\ mStored = [f \in AllPaths |-> IF f \in prior THEN 1 ELSE 0]
    /\ mOpened = [f \in AllPaths |-> NotOpened]
    /\ mPc = [v \in Views |-> "idle"]
    /\ mObjects = [v \in Views |-> <<>>]
    /\ mHandler = [v \in Views |-> NewHandler]
    /\ mNotAdded = [v \in Views |-> 0]
    /\ mSeen = [v \in Views |-> {}]
    /\ mSessions = 0

\* A new process of view v: GitMirror(view_name), add_commits(marks), and
\* the start of add_objects_to_p4: "opened = run('opened'); if opened:
\* run('revert', '//<object client>/...')".
MAddCommits(v) ==
    /\ MFrame
    /\ mPc[v] = "idle"
    /\ mSessions < MaxSessions
    /\ mSessions' = mSessions + 1
    /\ \E marks \in MarkSeqs :
          mObjects' = [mObjects EXCEPT ![v] = mirror_add_commits(<<>>, marks, v)]
    /\ mHandler' = [mHandler EXCEPT ![v] = NewHandler]
    /\ mNotAdded' = [mNotAdded EXCEPT ![v] = 0]
    /\ mSeen' = [mSeen EXCEPT ![v] = {}]
    /\ mOpened' = [f \in AllPaths |-> NotOpened]
    /\ mPc' = [mPc EXCEPT ![v] = "fstat"]
    /\ UNCHANGED <<mDepot, mStored>>

\* add_objects_to_p4: the fstat pass and "if files_to_add == 0: return",
\* which ends the process.
MFstat(v) ==
    /\ MFrame
    /\ mPc[v] = "fstat"
    /\ \E stats_opened \in BOOLEAN :
          LET add_files == [i \in DOMAIN mObjects[v] |-> git_p4_client_path(mObjects[v][i])]
              handler == run_fstat(NewHandler, v, add_files, stats_opened)
          IN  IF Len(handler.files) + Len(handler.existing) = 0
              THEN /\ mPc' = [mPc EXCEPT ![v] = "idle"]
                   /\ mObjects' = [mObjects EXCEPT ![v] = <<>>]
                   /\ UNCHANGED <<mHandler, mSeen>>
              ELSE /\ mPc' = [mPc EXCEPT ![v] = "add"]
                   /\ mHandler' = [mHandler EXCEPT ![v] = handler]
                   /\ mSeen' = [mSeen EXCEPT ![v] = {f \in AllPaths : mDepot[f] # <<>>}]
                   /\ UNCHANGED mObjects
    /\ UNCHANGED <<mDepot, mOpened, mNotAdded, mStored, mSessions>>

\* add_objects_with_views: 'p4 add -t binary' opens the files that are
\* neither in the depot nor opened already, 'p4 attribute' sets their views
\* to this view; a file the depot has is counted in files_not_added.
MAdd(v) ==
    /\ MFrame
    /\ mPc[v] = "add"
    /\ LET files == mHandler[v].files
           added_files == {f \in Range(files) : mDepot[f] = <<>> /\ mOpened[f] = NotOpened}
       IN  /\ mOpened' = [f \in AllPaths |->
                            IF f \in added_files
                            THEN [action |-> "add", views |-> <<v>>]
                            ELSE mOpened[f]]
           /\ mNotAdded' = [mNotAdded EXCEPT ![v] =
                               Cardinality({i \in DOMAIN files : mDepot[files[i]] # <<>>})]
    /\ mPc' = [mPc EXCEPT ![v] = "edit"]
    /\ UNCHANGED <<mDepot, mObjects, mHandler, mSeen, mStored, mSessions>>

\* edit_objects_with_views: 'p4 edit' then 'p4 attribute -p -n views -v'.
MEdit(v) ==
    /\ MFrame
    /\ mPc[v] = "edit"
    /\ LET view_mapping == build_view_mapping(mHandler[v].existing)
           ViewsFor(f) == view_mapping[CHOOSE i \in DOMAIN view_mapping :
                                          view_mapping[i][1] = f][2]
           names == {view_mapping[i][1] : i \in DOMAIN view_mapping}
       IN  mOpened' = [f \in AllPaths |->
                          IF f \in names /\ (mDepot[f] # <<>> \/ mOpened[f] # NotOpened)
                          THEN [action |-> IF mOpened[f] = NotOpened
                                           THEN "edit" ELSE mOpened[f].action,
                                views |-> ViewsFor(f)]
                          ELSE mOpened[f]]
    /\ mPc' = [mPc EXCEPT ![v] = "submit"]
    /\ UNCHANGED <<mDepot, mObjects, mHandler, mNotAdded, mSeen, mStored, mSessions>>

\* add_objects_to_p4: "if files_not_added < files_to_add: run('submit')".
\* The submit takes every file opened in the object client; with none
\* opened it raises and changes nothing.  The process ends.
MSubmit(v) ==
    /\ MFrame
    /\ mPc[v] = "submit"
    /\ IF mNotAdded[v] < Len(mHandler[v].files) + Len(mHandler[v].existing)
       THEN /\ mDepot' = [f \in AllPaths |->
                            IF mOpened[f] # NotOpened THEN mOpened[f].views ELSE mDepot[f]]
            /\ mStored' = [f \in AllPaths |->
                            IF mOpened[f].action = "add" THEN mStored[f] + 1 ELSE mStored[f]]
            /\ mOpened' = [f \in AllPaths |-> NotOpened]
       ELSE UNCHANGED <<mDepot, mStored, mOpened>>
    /\ mPc' = [mPc EXCEPT ![v] = "idle"]
    /\ mObjects' = [mObjects EXCEPT ![v] = <<>>]
    /\ mHandler' = [mHandler EXCEPT ![v] = NewHandler]
    /\ mNotAdded' = [mNotAdded EXCEPT ![v] = 0]
    /\ mSeen' = [mSeen EXCEPT ![v] = {}]
    /\ UNCHANGED mSessions

MNext ==
    \E v \in Views :
        \/ MAddCommits(v)
        \/ MFstat(v)
        \/ MAdd(v)
        \/ MEdit(v)
        \/ MSubmit(v)

MIdle ==
    /\ mDepot = <<>>
    /\ mOpened = <<>>
    /\ mPc = <<>>
    /\ mObjects = <<>>
    /\ mHandler = <<>>
    /\ mNotAdded = <<>>
    /\ mSeen = <<>>
    /\ mStored = <<>>
    /\ mSessions = 0

(***************************************************************************)
(* copy_p2g and P2G.copy (p4gf_copy_p2g.py, p4gf_copy_to_git.py,           *)
(* p4gf_fastimport.py)                                                     *)
(***************************************************************************)
MaxNewChanges == 2

MaxPriorChanges == 2

\* Changelist numbers the server can have given to the new changelists.
NewChangeNumbers == 9..(9 + MaxNewChanges)

\* str() and int() of a changelist number below 100: a string is the
\* sequence of its decimal digits.
str(n) == IF n < 10 THEN <<n>> ELSE <<n \div 10, n % 10>>

int(s) == IF Len(s) = 1 THEN s[1] ELSE 10 * s[1] + s[2]

\* A 40-character sha1: the one of master's commit n.
Sha1(n) == [i \in 1..40 |-> n]

\* The order of strings as text.
TextLess(a, b) ==
    \E i \in 1..Len(b) :
        /\ \A j \in 1..(i - 1) : j <= Len(a) /\ a[j] = b[j]
        /\ (i > Len(a) \/ a[i] < b[i])

\* The keys of self.changes sorted as text.
sorted_as_text(keys) ==
    [i \in 1..Cardinality(keys) |->
        CHOOSE k \in keys : Cardinality({l \in keys : TextLess(l, k)}) = i - 1]

\* _fstat: "sorted_changes = [str(y) for y in sorted([int(x) for x in
\* self.changes.keys()])]".
sorted_changes(keys) ==
    LET numbers == {int(x) : x \in keys}
    IN  [i \in 1..Cardinality(numbers) |->
            str(CHOOSE y \in numbers : Cardinality({z \in numbers : z < y}) = i - 1)]

\* RevRange.last_commit: the sha1 of master for a repo that has commits,
\* None (the empty string here: add_commit only tests "if last") for a
\* new repo.
last_commit(master) == IF master = 0 THEN <<>> ELSE Sha1(master)

\* FastImport.add_commit(cl, last): the mark and the line that names what
\* the commit is based on.
add_commit_parent(change, last) ==
    [mark |-> change,
     base |-> IF last # <<>>
              THEN IF Len(last) = 40 THEN "from" ELSE "from :"
              ELSE "deleteall",
     ref  |-> last]

ImInit ==
    /\ imPc = "start"
    /\ imNew \in 0..MaxNewChanges
    /\ imAdded = 0
    /\ imPrior \in 0..MaxPriorChanges
    /\ imMaster = imPrior
    /\ imTemp = None
    /\ imAttached \in BOOLEAN
    /\ imExc = FALSE
    /\ imP4Empty \in BOOLEAN
    /\ imP4Empty => imNew = 0
    /\ imEmptyRepo \in BOOLEAN
    /\ imChanges = FALSE
    /\ imKeys \in {keys \in SUBSET {str(n) : n \in NewChangeNumbers} : Cardinality(keys) = imNew}
    /\ imScript = <<>>
    /\ imLast = <<>>

\* A step of P2G.copy that leaves the Git refs alone: it raises, or the
\* copy goes on at 'next'.
ImStepOrRaise(next) ==
    /\ \E ok \in BOOLEAN :
          /\ imPc' = IF ok THEN next ELSE "raised"
          /\ imExc' = ~ok
    /\ UNCHANGED <<imNew, imAdded, imPrior, imMaster, imTemp, imAttached, imP4Empty, imEmptyRepo>>

\* copy_p2g taken never to return early.
nothing_to_copy_never(p4_empty, master) == FALSE

\* copy_p2g: "if _p4_empty(ctx) and _git_empty(): return", p4_empty
\* being that 'p4 files -m1' on the client view returns nothing and
\* _git_empty that 'git log -1 --oneline' prints nothing.
nothing_to_copy(p4_empty, master) == p4_empty /\ master = 0

\* copy_p2g up to copy_p4_changes_to_git: the early return, or
\* delete_empty_repo_branch ('git checkout -b master', which works only
\* while master does not exist, and 'git branch -D empty_repo') and
\* the RuntimeError for --start on a repo that has commits.
ImCopyP2G ==
    /\ ImFrame
    /\ imPc = "start"
    /\ IF nothing_to_copy(imP4Empty, imMaster)
       THEN /\ imPc' = "done"
            /\ UNCHANGED <<imNew, imAdded, imPrior, imMaster, imTemp, imAttached, imExc,
                           imP4Empty, imEmptyRepo, imChanges, imKeys, imScript, imLast>>
       ELSE /\ imEmptyRepo' = FALSE
            /\ imAttached' = IF imMaster = 0 THEN TRUE ELSE imAttached
            /\ \E start \in BOOLEAN :
                  /\ imExc' = (start /\ imMaster # 0)
                  /\ imPc' = IF start /\ imMaster # 0 THEN "raised" ELSE "setup"
            /\ UNCHANGED <<imNew, imAdded, imPrior, imMaster, imTemp, imP4Empty, imChanges, imKeys, imScript, imLast>>

\* P2G.copy: _setup and "if not len(self.changes): return".
ImSetup ==
    /\ ImFrame
    /\ imPc = "setup"
    /\ ImStepOrRaise(IF imNew = 0 THEN "finish" ELSE "gather")
    /\ imChanges' = TRUE
    /\ imLast' = last_commit(imMaster)
    /\ UNCHANGED <<imKeys, imScript>>

\* P2G.copy: _copy_print, _fstat, _sync.
ImGather ==
    /\ ImFrame
    /\ imPc = "gather"
    /\ ImStepOrRaise("script")
    /\ UNCHANGED <<imChanges, imKeys, imScript, imLast>>

\* _fast_import: fastimport.add_commit(change, last_commit) for the next
\* changelist of sorted_changes, then "last_commit = change.change".
ImAddCommit ==
    /\ ImFrame
    /\ imPc = "script"
    /\ \E ok \in BOOLEAN :
          /\ imExc' = ~ok
          /\ imAdded' = IF ok THEN imAdded + 1 ELSE imAdded
          /\ imPc' = IF ~ok THEN "raised"
                     ELSE IF imAdded + 1 = imNew THEN "fast_import" ELSE "script"
          /\ LET changenum == sorted_changes(imKeys)[imAdded + 1] IN
             IF ok
             THEN /\ imScript' = Append(imScript, add_commit_parent(changenum, imLast))
                  /\ imLast' = changenum
             ELSE UNCHANGED <<imScript, imLast>>
    /\ UNCHANGED <<imNew, imPrior, imMaster, imTemp, imAttached, imP4Empty, imEmptyRepo, imChanges, imKeys>>

\* run_fast_import: 'git fast-import' writes the script's commits to
\* refs/heads/git_fusion_temp_branch, or exits non-zero.
ImRunFastImport ==
    /\ ImFrame
    /\ imPc = "fast_import"
    /\ \E ok \in BOOLEAN :
          /\ imExc' = ~ok
          /\ imTemp' = IF ok THEN imPrior + imAdded ELSE imTemp
          /\ imPc' = IF ok THEN "mirror" ELSE "raised"
    /\ UNCHANGED <<imNew, imAdded, imPrior, imMaster, imAttached, imP4Empty, imEmptyRepo, imChanges, imKeys, imScript, imLast>>

\* P2G._mirror: add_commits and add_objects_to_p4.
ImMirror ==
    /\ ImFrame
    /\ imPc = "mirror"
    /\ ImStepOrRaise("merge")
    /\ UNCHANGED <<imChanges, imKeys, imScript, imLast>>

\* FastImport.merge: 'git merge --quiet --ff-only git_fusion_temp_branch'
\* moves HEAD, and master with it when HEAD is on master.
ImMerge ==
    /\ ImFrame
    /\ imPc = "merge"
    /\ \E ok \in BOOLEAN :
          /\ imExc' = ~ok
          /\ imMaster' = IF ok /\ imAttached THEN imTemp ELSE imMaster
          /\ imPc' = IF ok THEN "pack" ELSE "raised"
    /\ UNCHANGED <<imNew, imAdded, imPrior, imTemp, imAttached, imP4Empty, imEmptyRepo, imChanges, imKeys, imScript, imLast>>

\* P2G._pack: 'git gc' through popen_no_throw.
ImPack ==
    /\ ImFrame
    /\ imPc = "pack"
    /\ imPc' = "finish"
    /\ UNCHANGED <<imNew, imAdded, imPrior, imMaster, imTemp, imAttached, imExc, imP4Empty, imEmptyRepo, imChanges, imKeys, imScript, imLast>>

\* The end of copy_p2g: 'git checkout git_fusion_temp_branch~0',
\* 'git branch -f master ...' when that worked, 'git checkout -b master'
\* when it did not, 'git branch -d git_fusion_temp_branch'.
ImFinish ==
    /\ ImFrame
    /\ imPc = "finish"
    /\ imMaster' = IF imTemp # None THEN imTemp ELSE imMaster
    /\ imAttached' = (imTemp = None)
    /\ imTemp' = None
    /\ imPc' = "done"
    /\ UNCHANGED <<imNew, imAdded, imPrior, imExc, imP4Empty, imEmptyRepo, imChanges, imKeys, imScript, imLast>>

ImNext ==
    \/ ImCopyP2G
    \/ ImSetup
    \/ ImGather
    \/ ImAddCommit
    \/ ImRunFastImport
    \/ ImMirror
    \/ ImMerge
    \/ ImPack
    \/ ImFinish

ImIdle ==
    /\ imPc = "idle"
    /\ imNew = 0
    /\ imAdded = 0
    /\ imPrior = 0
    /\ imMaster = 0
    /\ imTemp = None
    /\ imAttached = FALSE
    /\ imExc = FALSE
    /\ imP4Empty = FALSE
    /\ imEmptyRepo = FALSE
    /\ imChanges = FALSE
    /\ imKeys = {}
    /\ imScript = <<>>
    /\ imLast = <<>>

(***************************************************************************)
(* p4gf_auth_server.main under the view lock (p4gf_auth_server.py,         *)
(* p4gf_init_repo.py)                                                      *)
(***************************************************************************)
MaxRequests == 3

INIT_REPO_EXISTS == 0

INIT_REPO_OK == 1

INIT_REPO_NOVIEW == 2

INIT_REPO_BADVIEW == 3

\* create_p4_client's result: the client exists, the template is missing,
\* the template's view is illegal (bad_view), or the client is created.
create_p4_client(client, template, bad_view) ==
    IF client THEN INIT_REPO_EXISTS
    ELSE IF ~template THEN INIT_REPO_NOVIEW
    ELSE IF bad_view THEN INIT_REPO_BADVIEW
    ELSE INIT_REPO_OK

\* main: repo_created taken to be True whatever init_repo returned.
repo_created_always(init_repo_status) == TRUE

\* main: repo_created is True for INIT_REPO_OK, False for INIT_REPO_EXISTS.
repo_created(init_repo_status) == init_repo_status = INIT_REPO_OK

\* cleanup_client: nothing when the client does not exist, else
\* 'p4 sync -fq ...#none', 'p4 client -df' and the removal of the view's
\* directory.  Gives the new <<svClient, svDir, svHave>>.
cleanup_client(client, dir, have) ==
    IF ~client THEN <<client, dir, have>> ELSE <<FALSE, FALSE, FALSE>>

SvInit ==
    /\ svPc = "start"
    /\ svRequests = 0
    /\ svTemplate \in BOOLEAN
    /\ svClient \in BOOLEAN
    /\ svDir \in BOOLEAN
    /\ svHave = FALSE
    /\ svLock = FALSE
    /\ svStatus = None
    /\ svCreated = FALSE
    /\ svExc = FALSE

\* "with p4gf_lock.view_lock(p4, view_name) as view_lock".
SvAcquire ==
    /\ SvFrame
    /\ svPc = "start"
    /\ svRequests < MaxRequests
    /\ svRequests' = svRequests + 1
    /\ svLock' = TRUE
    /\ svStatus' = None
    /\ svCreated' = FALSE
    /\ svExc' = FALSE
    /\ svPc' = "init_repo"
    /\ UNCHANGED <<svTemplate, svClient, svDir, svHave>>

\* init_repo: create_p4_client makes the client root directory first; a
\* result above INIT_REPO_OK makes main return 1.
SvInitRepo ==
    /\ SvFrame
    /\ svPc = "init_repo"
    /\ \E bad_view \in BOOLEAN :
          LET status == create_p4_client(svClient, svTemplate, bad_view)
          IN  /\ svStatus' = status
              /\ svClient' = (svClient \/ status = INIT_REPO_OK)
              /\ svCreated' = IF status > INIT_REPO_OK THEN svCreated
                              ELSE repo_created(status)
              /\ svPc' = IF status > INIT_REPO_OK THEN "leave" ELSE "import"
    /\ svDir' = TRUE
    /\ UNCHANGED <<svRequests, svTemplate, svHave, svLock, svExc>>

\* "try: p4gf_copy_p2g.copy_p2g_ctx(ctx)": it returns, or it raises after
\* syncing some files or none.
SvImport ==
    /\ SvFrame
    /\ svPc = "import"
    /\ \E ok \in BOOLEAN, synced \in BOOLEAN :
          /\ svExc' = ~ok
          /\ svHave' = (svHave \/ ok \/ synced)
          /\ svPc' = IF ok THEN "leave"
                     ELSE IF svCreated THEN "cleanup" ELSE "propagate"
    /\ UNCHANGED <<svRequests, svTemplate, svClient, svDir, svLock, svStatus, svCreated>>

\* "if repo_created: ... cleanup_client(ctx, view_name)".
SvCleanupClient ==
    /\ SvFrame
    /\ svPc = "cleanup"
    /\ svClient' = cleanup_client(svClient, svDir, svHave)[1]
    /\ svDir' = cleanup_client(svClient, svDir, svHave)[2]
    /\ svHave' = cleanup_client(svClient, svDir, svHave)[3]
    /\ svPc' = "propagate"
    /\ UNCHANGED <<svRequests, svTemplate, svLock, svStatus, svCreated, svExc>>

\* "raise": the exception leaves the with block, which releases the lock.
SvPropagate ==
    /\ SvFrame
    /\ svPc = "propagate"
    /\ svLock' = FALSE
    /\ svPc' = "start"
    /\ UNCHANGED <<svRequests, svTemplate, svClient, svDir, svHave, svStatus, svCreated, svExc>>

\* "return 1" / "return _call_original_git(ctx, args)" leave the with
\* block, which releases the lock.
SvLeave ==
    /\ SvFrame
    /\ svPc = "leave"
    /\ svLock' = FALSE
    /\ svPc' = "start"
    /\ UNCHANGED <<svRequests, svTemplate, svClient, svDir, svHave, svStatus, svCreated, svExc>>

SvNext ==
    \/ SvAcquire
    \/ SvInitRepo
    \/ SvImport
    \/ SvCleanupClient
    \/ SvPropagate
    \/ SvLeave

SvIdle ==
    /\ svPc = "idle"
    /\ svRequests = 0
    /\ svTemplate = FALSE
    /\ svClient = FALSE
    /\ svDir = FALSE
    /\ svHave = FALSE
    /\ svLock = FALSE
    /\ svStatus = None
    /\ svCreated = FALSE
    /\ svExc = FALSE

(***************************************************************************)
(* RevRange._new_repo_from_perforce_range (p4gf_copy_to_git.py)            *)
(***************************************************************************)
MaxServerChange == 4

ServerChanges == 1..MaxServerChange

\* The largest member of a non-empty set of changelist numbers.
MaxOf(S) == CHOOSE c \in S : \A d \in S : d <= c

\* 'p4 changes -m2 //client/...@S': at most two changelists of the view
\* numbered S or less, most recent first.
p4_changes_m2(view, start) ==
    LET upto == {c \in view : c <= start}
    IN  IF upto = {} THEN <<>>
        ELSE LET first == MaxOf(upto)
                 rest  == upto \ {first}
             IN  IF rest = {} THEN <<first>> ELSE <<first, MaxOf(rest)>>

\* _new_repo_from_perforce_range: graft_change_num, set from the second
\* row of 'p4 changes -m2' unless start_at is "@1".
new_repo_from_perforce_range(view, start) ==
    LET changes_result == p4_changes_m2(view, start)
    IN  IF start # 1 /\ 2 <= Len(changes_result)
        THEN changes_result[2]
        ELSE None

\* Depot paths of the view and the actions of a file revision.
GraftPaths == 1..2

\* The revisions of the view's history: changelist c submitted one
\* revision, revs[c] = <<path, action>>.
RevisionNumber(revs, c) ==
    Cardinality({d \in DOMAIN revs : d <= c /\ revs[d][1] = revs[c][1]})

P4File(revs, c) ==
    [depot_path |-> revs[c][1], revision |-> RevisionNumber(revs, c),
     action |-> revs[c][2], change |-> c]

\* A history the server can hold: a path is deleted only while it exists.
ServerHistory(revs) ==
    \A c \in DOMAIN revs :
        revs[c][2] = "delete" =>
            \E d \in DOMAIN revs :
                /\ d < c
                /\ revs[d][1] = revs[c][1]
                /\ revs[d][2] # "delete"
                /\ \A e \in DOMAIN revs : (d < e /\ e < c) => revs[e][1] # revs[c][1]

\* RevList.sort: by "depot_path#revision".
RevListSort(files) ==
    [i \in 1..Cardinality(files) |->
        CHOOSE f \in files :
            Cardinality({g \in files :
                \/ g.depot_path < f.depot_path
                \/ (g.depot_path = f.depot_path /\ g.revision < f.revision)}) = i - 1]

\* 'p4 print -a //client/...@S,#head': every revision submitted in the
\* range that is not a delete.
p4_print_range(revs, start) ==
    {P4File(revs, c) : c \in {d \in DOMAIN revs : start <= d /\ revs[d][2] # "delete"}}

\* 'p4 print //client/...@g' taken to print every revision up to g.
p4_print_upto(revs, graft) ==
    {P4File(revs, c) : c \in {d \in DOMAIN revs : d <= graft /\ revs[d][2] # "delete"}}

\* 'p4 print //client/...@g': of every file the revision it has at g,
\* unless that is a delete.
p4_print_at(revs, graft) ==
    {P4File(revs, c) : c \in {d \in DOMAIN revs :
        /\ d <= graft
        /\ revs[d][2] # "delete"
        /\ \A e \in DOMAIN revs : (d < e /\ e <= graft) => revs[e][1] # revs[d][1]}}

NoFile == [depot_path |-> 0, revision |-> 0, action |-> "none", change |-> 0]

\* P4Changelist.file_from_depot_path: the first file of the list with the
\* path, or None.
file_from_depot_path(files, depot_path) ==
    IF \E i \in DOMAIN files : files[i].depot_path = depot_path
    THEN files[CHOOSE i \in DOMAIN files :
                  /\ files[i].depot_path = depot_path
                  /\ \A j \in 1..(i - 1) : files[j].depot_path # depot_path]
    ELSE NoFile

\* _collapse_to_graft_change, the loop over printed_revs.revs: a revision
\* of the graft changelist or older is given the graft's number and
\* appended to graft_change.files when the list has no file of its path or
\* has one with a lower changelist number.
RECURSIVE collapse_to_graft_change(_, _, _)
collapse_to_graft_change(printed, files, graft) ==
    IF printed = <<>> THEN files
    ELSE LET p4file == Head(printed)
             old    == file_from_depot_path(files, p4file.depot_path)
         IN  IF graft < p4file.change
             THEN collapse_to_graft_change(Tail(printed), files, graft)
             ELSE IF old = NoFile \/ old.change < p4file.change
             THEN collapse_to_graft_change(Tail(printed),
                      Append(files, [p4file EXCEPT !.change = graft]), graft)
             ELSE collapse_to_graft_change(Tail(printed), files, graft)

GInit ==
    /\ gView \in SUBSET ServerChanges
    /\ gRevs \in [gView -> GraftPaths \X {"edit", "delete"}]
    /\ ServerHistory(gRevs)
    /\ gStart \in ServerChanges
    /\ gGraft = None
    /\ gPc = "start"
    /\ gChanges = {}
    /\ gPrinted = <<>>
    /\ gGraftFiles = <<>>

\* RevRange.from_start_stop with start_at "@S".
GFromStartStop ==
    /\ GFrame
    /\ gPc = "start"
    /\ gGraft' = new_repo_from_perforce_range(gView, gStart)
    /\ gPc' = "done"
    /\ UNCHANGED <<gView, gStart, gRevs, gChanges, gPrinted, gGraftFiles>>

\* P2G._setup ('p4 changes -l //client/...@S,#head' and the describe of the
\* graft changelist, whose files are all filtered out) and _copy_print:
\* the print of the range, the print at the graft changelist, and a
\* skeletal P4Changelist for every printed changelist self.changes lacks.
GCopyPrint ==
    /\ GFrame
    /\ gPc = "done"
    /\ LET changes == {c \in gView : gStart <= c}
           printed == p4_print_range(gRevs, gStart)
                      \cup (IF gGraft # None THEN p4_print_at(gRevs, gGraft) ELSE {})
       IN  /\ gChanges' = IF gGraft # None
                          THEN changes \cup {f.change : f \in printed}
                          ELSE changes
           /\ gPrinted' = RevListSort(printed)
    /\ gGraftFiles' = <<>>
    /\ gPc' = "printed"
    /\ UNCHANGED <<gView, gStart, gGraft, gRevs>>

\* _fstat up to and including _collapse_to_graft_change.
GCollapse ==
    /\ GFrame
    /\ gPc = "printed"
    /\ IF gGraft # None
       THEN /\ gChanges' = {c \in gChanges : gGraft < c}
            /\ gGraftFiles' = collapse_to_graft_change(gPrinted, gGraftFiles, gGraft)
       ELSE UNCHANGED <<gChanges, gGraftFiles>>
    /\ gPc' = "collapsed"
    /\ UNCHANGED <<gView, gStart, gGraft, gRevs, gPrinted>>

\* _add_graft_to_changes.
GAddGraft ==
    /\ GFrame
    /\ gPc = "collapsed"
    /\ gChanges' = IF gGraft # None THEN gChanges \cup {gGraft} ELSE gChanges
    /\ gPc' = "grafted"
    /\ UNCHANGED <<gView, gStart, gGraft, gRevs, gPrinted, gGraftFiles>>

GNext ==
    \/ GFromStartStop
    \/ GCopyPrint
    \/ GCollapse
    \/ GAddGraft

GIdle ==
    /\ gView = {}
    /\ gStart = 1
    /\ gGraft = None
    /\ gPc = "idle"
    /\ gRevs = <<>>
    /\ gChanges = {}
    /\ gPrinted = <<>>
    /\ gGraftFiles = <<>>

(***************************************************************************)
(* change_description and FastImport.add_commit (p4gf_copy_to_p4.py,       *)
(* p4gf_fastimport.py).  Text is a sequence of pieces <<kind, datum>>: a   *)
(* run of ordinary text, a line feed, the text "Imported from Git", or    *)
(* a stretch "Author: name <email> time zone" or "Committer: ..." that    *)
(* add_commit's regular expression matches; datum names the (name, email,  *)
(* time, timezone) it carries.                                             *)
(***************************************************************************)
MaxMessageLen == 3

NumIdentities == 2

Identities == 1..NumIdentities

Text == <<"text", 0>>

LF == <<"lf", 0>>

P4GF_IMPORT_HEADER == <<"Imported from Git", 0>>

Sha1Line == <<"sha1", 0>>

PusherLine == <<"Pusher", 0>>

\* " {key}: {user} {email} {date} {timezone}" of change_description.
KeyLine(key, datum) == <<key, datum>>

\* The committer add_commit makes up from the changelist's Perforce user.
FromP4User == 0

MessagePieces == {Text, LF, P4GF_IMPORT_HEADER} \cup {KeyLine("Author", d) : d \in Identities}

Messages == UNION {[1..n -> MessagePieces] : n \in 0..MaxMessageLen}

\* "\n".join(parts)
Join(parts) ==
    LET RECURSIVE J(_)
        J(i) == IF i > Len(parts) THEN <<>>
                ELSE IF i = Len(parts) THEN parts[i]
                ELSE parts[i] \o <<LF>> \o J(i + 1)
    IN  J(1)

\* change_description(commit, pusher, author)
change_description(commit, pusher_is_author) ==
    Join(<<commit.data, <<P4GF_IMPORT_HEADER>>,
           <<KeyLine("Author", commit.author)>>,
           <<KeyLine("Committer", commit.committer)>>>>
         \o (IF pusher_is_author THEN <<>> ELSE << <<PusherLine>> >>)
         \o << <<Sha1Line>> >>)

\* str.find counted in pieces: the index from 0 of the first piece equal
\* to sub, -1 when there is none.
find(string, sub) ==
    IF \E i \in 1..Len(string) : string[i] = sub
    THEN (CHOOSE i \in 1..Len(string) :
              /\ string[i] = sub
              /\ \A j \in 1..(i - 1) : string[j] # sub) - 1
    ELSE -1

\* string[start:stop] of Python for start >= 0; a negative stop counts
\* from the end.
Slice(string, start, stop) ==
    LET n    == Len(string)
        to   == IF stop < 0 THEN (IF n + stop < 0 THEN 0 ELSE n + stop)
                ELSE IF stop > n THEN n ELSE stop
    IN  SubSeq(string, start + 1, to)

\* add_commit: "impidx = cl.description.find(P4GF_IMPORT_HEADER)".
header_index(description) == find(description, P4GF_IMPORT_HEADER)

\* regex.search(suffix) for key: the datum of the first match, None when
\* nothing matches.
regex_search(key, suffix) ==
    IF \E i \in 1..Len(suffix) : suffix[i][1] = key
    THEN suffix[CHOOSE i \in 1..Len(suffix) :
                    /\ suffix[i][1] = key
                    /\ \A j \in 1..(i - 1) : suffix[j][1] # key][2]
    ELSE None

\* FastImport.add_commit: the author and committer lines and the data it
\* appends to the script (None for a line it does not write).
add_commit(description) ==
    LET impidx    == header_index(description)
        suffix    == Slice(description, impidx, Len(description))
        author    == IF impidx > -1 THEN regex_search("Author", suffix) ELSE None
        committer == IF impidx > -1 THEN regex_search("Committer", suffix) ELSE None
        committer_added == author # None \/ committer # None
    IN  IF committer_added
        THEN [author |-> author, committer |-> committer,
              data |-> Slice(description, 0, impidx - 1)]
        ELSE [author |-> None, committer |-> FromP4User, data |-> description]

DInit ==
    /\ dCommit \in [author : Identities, committer : Identities, data : Messages,
                    pusher_is_author : BOOLEAN]
    /\ dDesc = <<>>
    /\ dOut = [author |-> None, committer |-> None, data |-> <<>>]
    /\ dPc = "commit"

\* G2P.copy_commit: the changelist is submitted with change_description.
DChangeDescription ==
    /\ DFrame
    /\ dPc = "commit"
    /\ dDesc' = change_description(dCommit, dCommit.pusher_is_author)
    /\ dPc' = "changelist"
    /\ UNCHANGED <<dCommit, dOut>>

\* A later import of that changelist into a new repository.
DAddCommit ==
    /\ DFrame
    /\ dPc = "changelist"
    /\ dOut' = add_commit(dDesc)
    /\ dPc' = "reimported"
    /\ UNCHANGED <<dCommit, dDesc>>

DNext ==
    \/ DChangeDescription
    \/ DAddCommit

DIdle ==
    /\ dCommit = [author |-> 1, committer |-> 1, data |-> <<>>, pusher_is_author |-> TRUE]
    /\ dDesc = <<>>
    /\ dOut = [author |-> None, committer |-> None, data |-> <<>>]
    /\ dPc = "idle"

(***************************************************************************)
(* File revisions through FastImport.__add_files and G2P.add_or_edit_blob  *)
(* (p4gf_fastimport.py, p4gf_p4file.py, p4gf_copy_to_p4.py).  A content is *)
(* a number; the content of a symlink is its link text, which names the    *)
(* path of that number.  A sha1 is the content it was computed from.       *)
(***************************************************************************)
NumPaths == 2

NumContents == 2

Paths == 1..NumPaths

Contents == 1..NumContents

\* A Perforce filetype "name" or "name+mods".
FileType(name, mods) == [name |-> name, mods |-> mods]

\* The filetypes of the changelist: none with keyword expansion.
FileTypes ==
    {FileType("text", <<>>), FileType("text", <<"x">>), FileType("xtext", <<>>),
     FileType("binary", <<>>), FileType("symlink", <<>>)}

old_filetypes ==
    [ctempobj  |-> FileType("binary", <<"S", "w">>),
     ctext     |-> FileType("text", <<"C">>),
     cxtext    |-> FileType("text", <<"C", "x">>),
     ktext     |-> FileType("text", <<"k">>),
     kxtext    |-> FileType("text", <<"k", "x">>),
     ltext     |-> FileType("text", <<"F">>),
     tempobj   |-> FileType("binary", <<"F", "S", "w">>),
     ubinary   |-> FileType("binary", <<"F">>),
     uresource |-> FileType("resource", <<"F">>),
     uxbinary  |-> FileType("binary", <<"F", "x">>),
     xbinary   |-> FileType("binary", <<"x">>),
     xltext    |-> FileType("text", <<"F", "x">>),
     xtempobj  |-> FileType("binary", <<"S", "w", "x">>),
     xtext     |-> FileType("text", <<"x">>),
     xunicode  |-> FileType("unicode", <<"x">>),
     xutf16    |-> FileType("utf16", <<"x">>)]

update_type_string(old_type) ==
    IF old_type.mods = <<>> /\ old_type.name \in DOMAIN old_filetypes
    THEN old_filetypes[old_type.name]
    ELSE old_type

\* has_type_modifier: split('+'), then parts[1].find(modifier) != -1.
has_type_modifier(typestring, modifier) ==
    LET t == update_type_string(typestring)
    IN  IF t.mods = <<>> THEN FALSE
        ELSE \E i \in 1..Len(t.mods) : t.mods[i] = modifier

is_x_type(type) == has_type_modifier(type, "x")

\* self.type.startswith("symlink")
is_symlink(type) == type.name = "symlink"

\* The modes __add_files writes, as the numbers their octal digits spell.
Mode100755 == 33261

Mode120000 == 40960

Mode100644 == 33188

\* __add_files: the mode of the "M" line.
add_files_mode(type) ==
    IF is_x_type(type) THEN Mode100755
    ELSE IF is_symlink(type) THEN Mode120000
    ELSE Mode100644

\* __add_files over the changelist's files.
add_files(files) ==
    [p \in DOMAIN files |-> [mode |-> add_files_mode(files[p].type), sha1 |-> files[p].content]]

\* p4type_from_mode: 'symlink', '+x' or None.
p4type_from_mode(mode) ==
    IF mode = Mode120000 THEN "symlink"
    ELSE IF (mode \div 64) % 2 = 1 THEN "+x"
    ELSE "None"

\* shutil.copyfile(blob['path'], p4path) in the work tree 'git checkout'
\* left: open(src, 'rb') follows symbolic links, so the bytes copied are
\* those of the file the path resolves to, and the copy raises (None)
\* when it resolves to nothing.
RECURSIVE copyfile(_, _, _)
copyfile(tree, path, hops) ==
    IF path \notin DOMAIN tree THEN None
    ELSE IF tree[path].mode # Mode120000 THEN tree[path].sha1
    ELSE IF hops = 0 THEN None
    ELSE copyfile(tree, tree[path].sha1, hops - 1)

\* add_or_edit_blob for a file new to the depot: the bytes put in the
\* Perforce workspace and the filetype of 'p4 add -f -t'.
add_or_edit_blob(tree, path) ==
    [p4type |-> p4type_from_mode(tree[path].mode), content |-> copyfile(tree, path, NumPaths)]

\* The filetype Perforce records for 'p4 add -t p4type': '+x' and no
\* type leave the base type to the server's detection.
StoredType(p4type) ==
    IF p4type = "symlink" THEN FileType("symlink", <<>>)
    ELSE IF p4type = "+x" THEN FileType("text", <<"x">>)
    ELSE FileType("text", <<>>)

TInit ==
    /\ tChange \in UNION {[S -> [type : FileTypes, content : Contents]] :
                             S \in (SUBSET Paths) \ {{}}}
    /\ tTree = <<>>
    /\ tExport = <<>>
    /\ tTree2 = <<>>
    /\ tPc = "changelist"

\* P2G.copy into an empty repository: one commit whose tree is what
\* __add_files wrote.
TImport ==
    /\ TFrame
    /\ tPc = "changelist"
    /\ tTree' = add_files(tChange)
    /\ tPc' = "commit"
    /\ UNCHANGED <<tChange, tExport, tTree2>>

\* G2P.copy_commit into an empty depot: every file of the commit is an
\* add.  A copyfile that raises ends the export; what 'p4 submit' makes
\* of a regular file opened with type symlink is left open: it fails,
\* or the file is stored with the bytes it has.
TExport ==
    /\ TFrame
    /\ tPc = "commit"
    /\ LET blobs == [p \in DOMAIN tTree |-> add_or_edit_blob(tTree, p)]
           copied == \A p \in DOMAIN tTree : blobs[p].content # None
           links == \E p \in DOMAIN tTree : blobs[p].p4type = "symlink"
       IN  \E submitted \in BOOLEAN :
              /\ ~links => submitted
              /\ IF copied /\ submitted
                 THEN tExport' = blobs /\ tPc' = "exported"
                 ELSE tExport' = tExport /\ tPc' = "raised"
    /\ UNCHANGED <<tChange, tTree, tTree2>>

\* P2G.copy of the exported changelist into another empty repository.
TReimport ==
    /\ TFrame
    /\ tPc = "exported"
    /\ tTree2' = add_files([p \in DOMAIN tExport |->
                               [type |-> StoredType(tExport[p].p4type),
                                content |-> tExport[p].content]])
    /\ tPc' = "reimported"
    /\ UNCHANGED <<tChange, tTree, tExport>>

TNext ==
    \/ TImport
    \/ TExport
    \/ TReimport

TIdle ==
    /\ tChange = <<>>
    /\ tTree = <<>>
    /\ tExport = <<>>
    /\ tTree2 = <<>>
    /\ tPc = "idle"

(***************************************************************************)
(* Parser.get_path_token and remove_backslash_escapes (p4gf_fastexport.py) *)
(* A string is a sequence of bytes: "a" an ordinary character, "dq" the    *)
(* double quote, "bs" the backslash, "0" and "3" digits, "H" a byte that   *)
(* fast-export writes in octal (as \303), "lf" the line feed.              *)
(***************************************************************************)
MaxPathLen == 4

PathBytes == {"a", "dq", "bs", "0", "3", "H"}

PathStrings == UNION {[1..n -> PathBytes] : n \in 1..MaxPathLen}

\* What "\d" matches.
IsDigit(byte) == byte \in {"0", "3"}

\* How git fast-export writes a path: as it is when it has no byte to
\* escape, else between double quotes with \" for a quote, \\ for a
\* backslash and \ooo for a byte written in octal.
EscapeByte(byte) ==
    CASE byte = "dq" -> <<"bs", "dq">>
      [] byte = "bs" -> <<"bs", "bs">>
      [] byte = "H"  -> <<"bs", "3", "0", "3">>
      [] OTHER       -> <<byte>>

RECURSIVE EscapeBytes(_)
EscapeBytes(path) ==
    IF path = <<>> THEN <<>> ELSE EscapeByte(Head(path)) \o EscapeBytes(Tail(path))

fast_export_path(path) ==
    IF \E i \in DOMAIN path : path[i] \in {"dq", "bs", "H"}
    THEN <<"dq">> \o EscapeBytes(path) \o <<"dq">>
    ELSE path

\* unescape_unicode: the byte of an octal escape.
unescape_unicode(digits) == IF digits = <<"3", "0", "3">> THEN "H" ELSE "other"

\* re.sub(b'\\\d{3}', unescape_unicode, ba), from left to right.
RECURSIVE sub_octal_escapes(_)
sub_octal_escapes(ba) ==
    IF ba = <<>> THEN <<>>
    ELSE IF /\ Len(ba) >= 4
            /\ ba[1] = "bs"
            /\ IsDigit(ba[2]) /\ IsDigit(ba[3]) /\ IsDigit(ba[4])
    THEN <<unescape_unicode(SubSeq(ba, 2, 4))>> \o sub_octal_escapes(SubSeq(ba, 5, Len(ba)))
    ELSE <<Head(ba)>> \o sub_octal_escapes(Tail(ba))

\* ba.replace(b'\\"', b'"').
RECURSIVE replace_escaped_quotes(_)
replace_escaped_quotes(ba) ==
    IF ba = <<>> THEN <<>>
    ELSE IF Len(ba) >= 2 /\ ba[1] = "bs" /\ ba[2] = "dq"
    THEN <<"dq">> \o replace_escaped_quotes(SubSeq(ba, 3, Len(ba)))
    ELSE <<Head(ba)>> \o replace_escaped_quotes(Tail(ba))

\* remove_backslash_escapes.
remove_backslash_escapes(ba) == replace_escaped_quotes(sub_octal_escapes(ba))

\* bytes.strip(b'"'): every leading and every trailing double quote goes.
RECURSIVE lstrip(_, _)
lstrip(ba, byte) ==
    IF ba # <<>> /\ Head(ba) = byte THEN lstrip(Tail(ba), byte) ELSE ba

RECURSIVE rstrip(_, _)
rstrip(ba, byte) ==
    IF ba # <<>> /\ ba[Len(ba)] = byte
    THEN rstrip(SubSeq(ba, 1, Len(ba) - 1), byte)
    ELSE ba

strip(ba, byte) == rstrip(lstrip(ba, byte), byte)

\* get_path_token's loop "for offset in range(self.offset + 1,
\* len(self.text))" with self.offset 0: the offset after the closing
\* quote, 0 when there is none.
RECURSIVE closing_quote(_, _, _)
closing_quote(text, offset, escaped) ==
    IF offset >= Len(text) THEN 0
    ELSE IF escaped THEN closing_quote(text, offset + 1, FALSE)
    ELSE IF text[offset + 1] = "bs" THEN closing_quote(text, offset + 1, TRUE)
    ELSE IF text[offset + 1] = "dq" THEN offset + 1
    ELSE closing_quote(text, offset + 1, FALSE)

\* Parser.get_token at offset 0: the text before the separator.
get_token(text, separator) ==
    IF find(text, separator) = -1
    THEN [token |-> <<>>, raised |-> "RuntimeError"]
    ELSE [token |-> Slice(text, 0, find(text, separator)), raised |-> "none"]

\* Parser.get_path_token at offset 0.
get_path_token(text, separator) ==
    IF Slice(text, 0, 1) # <<"dq">>
    THEN get_token(text, separator)
    ELSE LET end == closing_quote(text, 1, FALSE)
         IN  IF Slice(text, end, end + 1) # <<separator>>
             THEN [token |-> <<>>, raised |-> "RuntimeError"]
             ELSE [token  |-> remove_backslash_escapes(strip(Slice(text, 0, end), "dq")),
                   raised |-> "none"]

PtInit ==
    /\ ptPath \in PathStrings
    /\ ptText = <<>>
    /\ ptToken = <<>>
    /\ ptExc = "none"
    /\ ptPc = "start"

\* git fast-export writes the last path of a file line: "... <path> LF".
PtFastExport ==
    /\ PtFrame
    /\ ptPc = "start"
    /\ ptText' = fast_export_path(ptPath) \o <<"lf">>
    /\ ptPc' = "written"
    /\ UNCHANGED <<ptPath, ptToken, ptExc>>

\* get_commit: value["path"] = self.get_path_token(LF).
PtGetPathToken ==
    /\ PtFrame
    /\ ptPc = "written"
    /\ LET r == get_path_token(ptText, "lf") IN
          /\ ptToken' = r.token
          /\ ptExc' = r.raised
    /\ ptPc' = "parsed"
    /\ UNCHANGED <<ptPath, ptText>>

PtNext ==
    \/ PtFastExport
    \/ PtGetPathToken

PtIdle ==
    /\ ptPath = <<>>
    /\ ptText = <<>>
    /\ ptToken = <<>>
    /\ ptExc = "none"
    /\ ptPc = "idle"

(***************************************************************************)
(* _maybe_perform_init (p4gf_init.py).  Every p4.run is one step; a        *)
(* process may die between any two of them.  time.sleep(1) changes no      *)
(* state and is part of the step that leads back to the top of the loop.   *)
(***************************************************************************)
NumInitProcs == 2

InitProcs == 1..NumInitProcs

\* "if check_times > 5".
MaxCheckTimes == 5

\* "if r[0]['value'] == "0"" on the started counter.
not_started(value) == value = 0

\* A check of the complete counter that takes every value for a
\* completed initialization.
not_complete_never(value) == FALSE

\* "if r[0]['value'] == "0"" on the complete counter.
not_complete(value) == value = 0

\* A waiter that never steals.
steal_never(check_times) == FALSE

\* "if check_times > 5": steal the lock.
steal(check_times) == check_times > MaxCheckTimes

PiInit ==
    /\ piStarted = 0
    /\ piComplete = 0
    /\ piPc = [p \in InitProcs |-> "read_started"]
    /\ piCheckTimes = [p \in InitProcs |-> 0]
    /\ piInited = [p \in InitProcs |-> FALSE]
    /\ piAlive = [p \in InitProcs |-> TRUE]
    /\ piFuncDone = 0

PiAt(p, pc) == piAlive[p] /\ piPc[p] = pc

\* r = p4.run('counter', '-u', started_counter)
PiReadStarted(p) ==
    /\ PiFrame
    /\ PiAt(p, "read_started")
    /\ piPc' = [piPc EXCEPT ![p] =
                  IF not_started(piStarted) THEN "increment_started" ELSE "read_complete"]
    /\ UNCHANGED <<piStarted, piComplete, piCheckTimes, piInited, piAlive, piFuncDone>>

\* r = p4.run('counter', '-u', '-i', started_counter); without the value
\* 1 the process sleeps and starts over.
PiIncrementStarted(p) ==
    /\ PiFrame
    /\ PiAt(p, "increment_started")
    /\ piStarted' = piStarted + 1
    /\ piPc' = [piPc EXCEPT ![p] = IF piStarted' = 1 THEN "func" ELSE "read_started"]
    /\ UNCHANGED <<piComplete, piCheckTimes, piInited, piAlive, piFuncDone>>

\* func(p4)
PiFunc(p) ==
    /\ PiFrame
    /\ PiAt(p, "func")
    /\ piFuncDone' = piFuncDone + 1
    /\ piPc' = [piPc EXCEPT ![p] = "increment_complete"]
    /\ UNCHANGED <<piStarted, piComplete, piCheckTimes, piInited, piAlive>>

\* p4.run('counter', '-u', '-i', complete_counter); inited = True; break
PiIncrementComplete(p) ==
    /\ PiFrame
    /\ PiAt(p, "increment_complete")
    /\ piComplete' = piComplete + 1
    /\ piInited' = [piInited EXCEPT ![p] = TRUE]
    /\ piPc' = [piPc EXCEPT ![p] = "returned"]
    /\ UNCHANGED <<piStarted, piCheckTimes, piAlive, piFuncDone>>

\* r = p4.run('counter', '-u', complete_counter) and what follows it up
\* to the next p4.run.  check_times only matters up to MaxCheckTimes + 1.
PiReadComplete(p) ==
    /\ PiFrame
    /\ PiAt(p, "read_complete")
    /\ IF not_complete(piComplete)
       THEN LET check_times == IF piCheckTimes[p] > MaxCheckTimes
                               THEN piCheckTimes[p]
                               ELSE piCheckTimes[p] + 1
            IN  /\ piCheckTimes' = [piCheckTimes EXCEPT ![p] = check_times]
                /\ piPc' = [piPc EXCEPT ![p] =
                              IF steal(check_times) THEN "delete_started" ELSE "read_started"]
       ELSE /\ piPc' = [piPc EXCEPT ![p] = "returned"]
            /\ UNCHANGED piCheckTimes
    /\ UNCHANGED <<piStarted, piComplete, piInited, piAlive, piFuncDone>>

\* p4.run('counter', '-u', '-d', started_counter); continue
PiDeleteStarted(p) ==
    /\ PiFrame
    /\ PiAt(p, "delete_started")
    /\ piStarted' = 0
    /\ piPc' = [piPc EXCEPT ![p] = "read_started"]
    /\ UNCHANGED <<piComplete, piCheckTimes, piInited, piAlive, piFuncDone>>

\* The process dies (is killed, loses its connection, func raises).
PiDie(p) ==
    /\ PiFrame
    /\ piAlive[p]
    /\ piPc[p] # "returned"
    /\ piAlive' = [piAlive EXCEPT ![p] = FALSE]
    /\ UNCHANGED <<piStarted, piComplete, piPc, piCheckTimes, piInited, piFuncDone>>

\* The steps of a process that runs.
PiStep(p) ==
    \/ PiReadStarted(p)
    \/ PiIncrementStarted(p)
    \/ PiFunc(p)
    \/ PiIncrementComplete(p)
    \/ PiReadComplete(p)
    \/ PiDeleteStarted(p)

PiNext ==
    \/ \E p \in InitProcs : PiReadStarted(p)
    \/ \E p \in InitProcs : PiIncrementStarted(p)
    \/ \E p \in InitProcs : PiFunc(p)
    \/ \E p \in InitProcs : PiIncrementComplete(p)
    \/ \E p \in InitProcs : PiReadComplete(p)
    \/ \E p \in InitProcs : PiDeleteStarted(p)
    \/ \E p \in InitProcs : PiDie(p)

PiIdle ==
    /\ piStarted = 0
    /\ piComplete = 0
    /\ piPc = <<>>
    /\ piCheckTimes = <<>>
    /\ piInited = <<>>
    /\ piAlive = <<>>
    /\ piFuncDone = 0

(***************************************************************************)
(* Specifications                                                          *)
(***************************************************************************)
CheckInit == CkInit /\ XIdle /\ RIdle /\ LkIdle /\ CpIdle /\ MIdle /\ ImIdle /\ SvIdle /\ GIdle /\ DIdle /\ TIdle /\ PtIdle /\ PiIdle

SpecCheck == CheckInit /\ [][CkNext]_vars

ExportInit == XInit /\ CkIdle /\ RIdle /\ LkIdle /\ CpIdle /\ MIdle /\ ImIdle /\ SvIdle /\ GIdle /\ DIdle /\ TIdle /\ PtIdle /\ PiIdle

SpecExport == ExportInit /\ [][XNext]_vars

ReplayInit == RInit /\ CkIdle /\ XIdle /\ LkIdle /\ CpIdle /\ MIdle /\ ImIdle /\ SvIdle /\ GIdle /\ DIdle /\ TIdle /\ PtIdle /\ PiIdle

SpecReplay == ReplayInit /\ [][RNext]_vars

LockInit == LkInit /\ CkIdle /\ XIdle /\ RIdle /\ CpIdle /\ MIdle /\ ImIdle /\ SvIdle /\ GIdle /\ DIdle /\ TIdle /\ PtIdle /\ PiIdle

SpecLock == LockInit /\ [][LkNext]_vars

LockLiveInit == LkLiveInit /\ CkIdle /\ XIdle /\ RIdle /\ CpIdle /\ MIdle /\ ImIdle /\ SvIdle /\ GIdle /\ DIdle /\ TIdle /\ PtIdle /\ PiIdle

SpecLockLive == LockLiveInit /\ [][LkLiveNext]_vars

PacemakerInit == LkPaceInit /\ CkIdle /\ XIdle /\ RIdle /\ CpIdle /\ MIdle /\ ImIdle /\ SvIdle /\ GIdle /\ DIdle /\ TIdle /\ PtIdle /\ PiIdle

SpecPacemaker == PacemakerInit /\ [][LkPaceNext]_vars

CheckpointInit == CpInit /\ CkIdle /\ XIdle /\ RIdle /\ LkIdle /\ MIdle /\ ImIdle /\ SvIdle /\ GIdle /\ DIdle /\ TIdle /\ PtIdle /\ PiIdle

SpecCheckpoint == CheckpointInit /\ [][CpNext]_vars

MirrorInit == MInit /\ CkIdle /\ XIdle /\ RIdle /\ LkIdle /\ CpIdle /\ ImIdle /\ SvIdle /\ GIdle /\ DIdle /\ TIdle /\ PtIdle /\ PiIdle

SpecMirror == MirrorInit /\ [][MNext]_vars

ImportInit == ImInit /\ CkIdle /\ XIdle /\ RIdle /\ LkIdle /\ CpIdle /\ MIdle /\ SvIdle /\ GIdle /\ DIdle /\ TIdle /\ PtIdle /\ PiIdle

SpecImport == ImportInit /\ [][ImNext]_vars

ServeInit == SvInit /\ CkIdle /\ XIdle /\ RIdle /\ LkIdle /\ CpIdle /\ MIdle /\ ImIdle /\ GIdle /\ DIdle /\ TIdle /\ PtIdle /\ PiIdle

SpecServe == ServeInit /\ [][SvNext]_vars

GraftInit == GInit /\ CkIdle /\ XIdle /\ RIdle /\ LkIdle /\ CpIdle /\ MIdle /\ ImIdle /\ SvIdle /\ DIdle /\ TIdle /\ PtIdle /\ PiIdle

SpecGraft == GraftInit /\ [][GNext]_vars

DescriptionInit == DInit /\ CkIdle /\ XIdle /\ RIdle /\ LkIdle /\ CpIdle /\ MIdle /\ ImIdle /\ SvIdle /\ GIdle /\ TIdle /\ PtIdle /\ PiIdle

SpecDescription == DescriptionInit /\ [][DNext]_vars

RoundTripInit == TInit /\ CkIdle /\ XIdle /\ RIdle /\ LkIdle /\ CpIdle /\ MIdle /\ ImIdle /\ SvIdle /\ GIdle /\ DIdle /\ PtIdle /\ PiIdle

SpecRoundTrip == RoundTripInit /\ [][TNext]_vars

PathInit == PtInit /\ CkIdle /\ XIdle /\ RIdle /\ LkIdle /\ CpIdle /\ MIdle /\ ImIdle /\ SvIdle /\ GIdle /\ DIdle /\ TIdle /\ PiIdle

SpecPath == PathInit /\ [][PtNext]_vars

PerformInit == PiInit /\ CkIdle /\ XIdle /\ RIdle /\ LkIdle /\ CpIdle /\ MIdle /\ ImIdle /\ SvIdle /\ GIdle /\ DIdle /\ TIdle /\ PtIdle

SpecInit == PerformInit /\ [][PiNext]_vars

PerformInitLive == PerformInit

SpecInitLive ==
    /\ PerformInitLive
    /\ [][PiNext]_vars
    /\ \A p \in InitProcs : WF_vars(PiStep(p))

(***************************************************************************)
(* Claims                                                                  *)
(***************************************************************************)
\* The changelist the last check() followed, and the newest changelist of
\* the view that this process knew before it (HEAD's or an earlier
\* commit's), 0 when there is none.
XSubmitted == ChangeOfCommit(xChanges, xIdx)

XKnownBefore ==
    LET known == {i \in DOMAIN xChanges : i < XSubmitted /\ xChanges[i].by # "foreign"}
    IN  IF known = {} THEN 0 ELSE CHOOSE i \in known : \A j \in known : j <= i

XForeignBefore ==
    {i \in ForeignChanges(xChanges) : XKnownBefore < i /\ i < XSubmitted}

\* check() has run after the submit of commit xIdx: it returned, or it
\* raised.
XCheckRan == xPc = "checked" \/ xExc = "IndexError"

\* C3: when commit i-1 was checked without conflict (it is in marks) and a
\* foreign changelist landed in the view after that check and before the
\* submit of commit i, the check() after that submit reports a conflict,
\* every commit submitted before i is in marks, copy() never takes another
\* command (it is in its finally block or has ended), and it ends with an
\* exception.
C3_ConflictStopsExport ==
    (xPreAtCheck >= 1 /\ Len(xMarks) >= 1) =>
        /\ xRet # None
        /\ has_conflict(xFirst)
        /\ xPc \in {"checked", "finally", "done"}
        /\ \A i \in OwnChanges(xChanges) :
              \/ xChanges[i].commit = xIdx
              \/ \E m \in DOMAIN xMarks :
                    xMarks[m] = [change |-> i, sha1 |-> xChanges[i].commit]
        /\ xPc = "done" => xExc # "none"

C3_Witness ==
    /\ xPc = "done"
    /\ xPreAtCheck >= 1
    /\ Len(xMarks) >= 1
    /\ xIdx < xTotal
    /\ xMsg = "conflict"

\* C4 as claimed: once check() has run after a submit, and foreign
\* changelists sit in the view between the newest changelist this process
\* knew and the one it just submitted, check() returned a conflict, however
\* many foreign changelists there are.
C4_ForeignAlwaysDetected ==
    (XCheckRan /\ XForeignBefore # {}) =>
        /\ xExc # "IndexError"
        /\ xRet # None
        /\ has_conflict(xFirst)

\* C6 as claimed: copy() ends either with every eligible commit submitted,
\* or with an error and none of its changelists left on the server.
C6_AllOrNothing ==
    xPc = "done" =>
        \/ /\ xExc = "none"
           /\ xIdx = xTotal
           /\ \A c \in xNonEmpty : ChangeOfCommit(xChanges, c) # None
        \/ /\ xExc # "none"
           /\ OwnChanges(xChanges) = {}

\* C6 as amended: copy() ends either without an exception, all commands
\* taken and one changelist on the server for every commit that opened
\* files, or with an exception; in both cases no commit has two changelists,
\* every commit that opened files and came before the last command taken has
\* its changelist on the server (nothing is rolled back), and every
\* changelist recorded as known-good is still there.
C6_PrefixKept ==
    xPc = "done" =>
        /\ xExc = "none" =>
              /\ xIdx = xTotal
              /\ \A c \in xNonEmpty : ChangeOfCommit(xChanges, c) # None
        /\ \A c \in xNonEmpty : c < xIdx => ChangeOfCommit(xChanges, c) # None
        /\ \A i, j \in OwnChanges(xChanges) :
              xChanges[i].commit = xChanges[j].commit => i = j
        /\ \A g \in DOMAIN xGood :
              /\ xGood[g].p4_changelist_number \in DOMAIN xChanges
              /\ xChanges[xGood[g].p4_changelist_number].commit
                    = xGood[g].git_commit_sha1

C6_Witness ==
    /\ xPc = "done"
    /\ xExc # "none"
    /\ OwnChanges(xChanges) # {}
    /\ xIdx < xTotal

\* C7 as claimed: after a conflict stop and the mirror flush, every commit
\* submitted during this export has its commit object in the mirror.
C7_EverySubmittedMirrored ==
    (xPc = "done" /\ xFlushed /\ xRet # None) =>
        \A i \in OwnChanges(xChanges) :
            [sha1 |-> xChanges[i].commit, change |-> i] \in xMirror

\* C7 as amended: after a conflict stop and the mirror flush, a commit
\* submitted during this export has its commit object in the mirror exactly
\* when its own check() reported no conflict: all of them but the commit
\* whose check() reported the conflict.
C7_MirroredButConflicting ==
    (xPc = "done" /\ xFlushed /\ xRet # None) =>
        \A i \in OwnChanges(xChanges) :
            [sha1 |-> xChanges[i].commit, change |-> i] \in xMirror
                <=> xChanges[i].commit # xIdx

C7_Witness ==
    /\ xPc = "done"
    /\ xFlushed
    /\ xRet # None
    /\ Cardinality(OwnChanges(xChanges)) >= 2

\* C8: once copy_commit has run on a commit with a merge parent, an
\* exception is in flight, copy() takes no further command, no file of the
\* commit was opened and no changelist was submitted for it.
C8_MergeRejected ==
    (xCur.command = "commit" /\ xCur.merge /\ xPc \notin {"heartbeat", "copy_commit"}) =>
        /\ xExc # "none"
        /\ xPc \in {"finally", "done"}
        /\ xIdx \notin xOpened
        /\ xIdx \notin xNonEmpty
        /\ ChangeOfCommit(xChanges, xIdx) = None

C8_Witness ==
    /\ xPc = "done"
    /\ xCur.merge
    /\ xMsg = "merge"
    /\ xIdx < xTotal
    /\ OwnChanges(xChanges) # {}

\* The account an author email resolves to without the fallback: the user
\* map file first, 'p4 users' second.
XResolved(email) ==
    LET mapped == find_by_tuple_index("email", email, UserMapFile)
    IN  IF mapped # NoUser THEN mapped
        ELSE find_by_tuple_index("email", email, P4Users(xUnknownGit))

XNoExistingAccount(email) ==
    \/ XResolved(email) = NoUser
    \/ ~p4user_exists(XResolved(email).p4user, P4Users(xUnknownGit))

\* C10 as claimed: for a commit whose author email resolves to no existing
\* account, copy_commit raises with nothing opened and nothing submitted when
\* there is no 'unknown_git' account, and does not reject the author when
\* there is one: a changelist submitted for the commit is owned by
\* 'unknown_git'.
C10_UnknownAuthor ==
    ( /\ xCur.command = "commit"
      /\ ~xCur.merge
      /\ XNoExistingAccount(xCur.email)
      /\ xPc \notin {"heartbeat", "copy_commit", "done"}
      /\ xMsg # "canceled" ) =>
        IF ~xUnknownGit
        THEN /\ xMsg = "user"
             /\ xExc = "RuntimeError"
             /\ xIdx \notin xOpened
             /\ ChangeOfCommit(xChanges, xIdx) = None
        ELSE /\ xMsg # "user"
             /\ (xPc \in {"check", "checked", "loop"} /\ XSubmitted # None)
                    => xChanges[XSubmitted].user = P4GF_UNKNOWN_USER

\* C5 as claimed: after check(), when the query result (oldest first) is the
\* known-good changelists p1..pk followed by foreign ones, check() found the
\* conflict at index k and returned the first foreign changelist; when the
\* query result is exactly p1..pk, check() returned None and has_conflict()
\* is false.
C5_ConflictMonotonicity ==
    LET good    == [i \in 1..Len(ckGood) |-> ckGood[i].p4_changelist_number]
        changes == Reverse(ckQuery)
        k       == Len(good)
    IN  (ckChecked /\ k >= 1) =>
            /\ (Len(changes) > k /\ SubSeq(changes, 1, k) = good) =>
                  /\ ckRaised = "none"
                  /\ ckFirst = k
                  /\ ckRet = changes[k + 1]
            /\ changes = good =>
                  /\ ckRaised = "none"
                  /\ ckRet = None
                  /\ ~has_conflict(ckFirst)

\* C9 as claimed: when copy_commit exits with an exception raised during
\* the replay of the commit's files, no file is opened in the project
\* workspace and no file this commit newly created is left in the local
\* tree.
C9_ReplayFailureCleansUp ==
    (rPc = "exit" /\ rExc # "none") =>
        /\ rOpened = {}
        /\ rLocal = {}

\* C1 as claimed: no two live processes have both returned from acquire()
\* with has() true.
C1_MutualExclusion ==
    \A p, q \in LkHolders : p = q

\* C2 as claimed: a process that cleared the lock of a dead holder acquires
\* it at its next _acquire_attempt (it is never found waiting again), and
\* once it has the lock no other live process has it.
C2_ReclaimerSoleHolder ==
    \A p \in Procs :
        lkReclaimed[p] =>
            /\ lkPc[p] \notin {"waiting", "failed", "clear_heartbeat", "delete_counter"}
            /\ lkPc[p] \in {"acquired", "held"} => LkHolders \subseteq {p}

\* C11: a commit whose replay opened no file has no changelist, no entry in
\* the known-good list (record_commit and check() did not run for it), no
\* mark and no mirror object; when copy_commit has returned None for it,
\* copy() is back at the head of its loop with no exception in flight.
C11_EmptyCommitIsNoOp ==
    /\ \A c \in 1..xIdx :
          c \notin xNonEmpty =>
             /\ \A i \in OwnChanges(xChanges) : xChanges[i].commit # c
             /\ \A g \in DOMAIN xGood : xGood[g].git_commit_sha1 # c
             /\ \A m \in DOMAIN xMarks : xMarks[m].sha1 # c
             /\ \A o \in xMirror : o.sha1 # c
    /\ (xCur.command = "commit" /\ xPc = "loop" /\ xIdx \notin xNonEmpty) =>
          /\ xExc = "none"
          /\ xOpened = {}

C11_Witness ==
    /\ xCur.command = "commit"
    /\ xCur.files = "none"
    /\ xPc = "loop"
    /\ xIdx \notin xNonEmpty
    /\ xIdx >= 2
    /\ Len(xMarks) >= 1

\* C15: the changelists of this export are in the order of the commit
\* commands: a later changelist is for a later commit (so no commit has
\* two), and every commit that opened files and was left behind by the loop
\* has its changelist.
C15_SubmitOrder ==
    /\ \A i, j \in OwnChanges(xChanges) :
          i < j => xChanges[i].commit < xChanges[j].commit
    /\ \A i \in OwnChanges(xChanges) : xChanges[i].commit \in xNonEmpty
    /\ \A c \in xNonEmpty : c < xIdx => \E i \in OwnChanges(xChanges) : xChanges[i].commit = c

C15_Witness ==
    /\ Cardinality(OwnChanges(xChanges)) >= 2
    /\ \E i, j \in OwnChanges(xChanges), f \in ForeignChanges(xChanges) : i < f /\ f < j

\* C13: a process whose acquire() raised has() false and gave up only once
\* its timeout had elapsed; and when no holder ever died (every holder kept
\* its heartbeat fresh), it never cleared the heartbeat counter or deleted
\* the lock counter on the way.
C13_TimeoutLeavesLock ==
    \A p \in Procs :
        lkPc[p] = "failed" =>
            /\ ~lkHas[p]
            /\ lkNow - lkStart[p] >= LOCK_TIMEOUT_SECS
            /\ (\A q \in Procs : lkPc[q] # "dead") => ~lkReclaimed[p]

C13_Witness ==
    \E p, q \in Procs :
        /\ lkPc[p] = "failed"
        /\ lkPc[q] = "held"
        /\ lkHeartbeatPid = q
        /\ check_holder_alive(lkHeartbeat, lkNow)
        /\ lkCounter >= 2
        /\ \A r \in Procs : lkPc[r] # "dead"

C12_CanceledCheckpointStops ==
    cpZeroAt # None =>
        /\ cpExc
        /\ cpPc \in {"flush", "raised"}
        /\ cpBeat # cpZeroAt
        /\ \A d \in cpDone : d < cpZeroAt

C12_Witness ==
    /\ cpMode = "import"
    /\ cpZeroAt = 2
    /\ cpDone = {1}
    /\ cpTotal = 3
    /\ cpPc = "raised"

\* C16: the add list of a mirror operation names no path twice and no path
\* that was in the depot when the operation ran fstat; such an object is
\* only re-attributed (it is among the existing files when its views lack
\* this view, and left alone otherwise); no path's content is added to the
\* depot more than once.
C16_ContentAddedOnce ==
    /\ \A f \in AllPaths : mStored[f] <= 1
    /\ \A v \in Views :
          mPc[v] \in {"add", "edit", "submit"} =>
             LET files == mHandler[v].files
                 existing == mHandler[v].existing
             IN  /\ \A i, j \in DOMAIN files : files[i] = files[j] => i = j
                 /\ \A i \in DOMAIN files : files[i] \notin mSeen[v]
                 /\ \A i \in DOMAIN existing : Range(existing[i][2]) # {v}
                 /\ Len(files) + Len(existing) <= Len(mObjects[v])

C16_Witness ==
    \E v \in Views :
        /\ mPc[v] = "add"
        /\ Cardinality({i \in DOMAIN mObjects[v] : mObjects[v][i].type = "commit"}) = 2
        /\ mirror_path(SharedTree, "tree") \in mSeen[v]
        /\ mStored[mirror_path(SharedTree, "tree")] = 1
        /\ \E i \in DOMAIN mHandler[v].existing :
              mHandler[v].existing[i][1] = mirror_path(SharedTree, "tree")
        /\ Len(mHandler[v].files) >= 1

\* C17: no step removes a view from the views attribute of a mirrored
\* object.
C17_AttributionNeverShrinks ==
    [][\A f \in AllPaths : Range(mDepot[f]) \subseteq Range(mDepot'[f])]_vars


\* C18: in the context of view v, get_change_for_commit gives the changelist
\* of the commit in v when v has mirrored the commit and None when it has
\* not, whatever other views have mirrored.
C18_OwnChangelistOnly ==
    \A v \in Views, c \in Commits :
        get_change_for_commit(c, v, mDepot) =
            IF mDepot[git_p4_client_path(CommitObject(v, c))] # <<>>
            THEN P4Change(v, c)
            ELSE None

C18_Witness ==
    \E c \in Commits, v, w \in Views :
        /\ v # w
        /\ \A u \in {v, w} : mDepot[git_p4_client_path(CommitObject(u, c))] # <<>>
        /\ get_change_for_commit(c, v, mDepot) = P4Change(v, c)
        /\ get_change_for_commit(c, w, mDepot) = P4Change(w, c)
        /\ \E d \in Commits :
              /\ mDepot[git_p4_client_path(CommitObject(v, d))] = <<>>
              /\ mDepot[git_p4_client_path(CommitObject(w, d))] # <<>>
              /\ get_change_for_commit(d, v, mDepot) = None

\* C19: when copy_p2g has ended, by returning or by raising, the temporary
\* branch is gone and master is where it was or at the end of the imported
\* history.
C19_TempBranchNeverRemains ==
    imPc \in {"raised", "done"} =>
        /\ imTemp = None
        /\ imMaster \in {imPrior, imPrior + imNew}

C21_EmptyViewEmptyRepoNoOp ==
    [][(imPc = "start" /\ imP4Empty /\ imPrior = 0) =>
          /\ imPc' = "done"
          /\ ~imChanges'
          /\ imAdded' = 0
          /\ UNCHANGED <<imMaster, imTemp, imAttached, imEmptyRepo, imExc>>]_vars

C21_Witness ==
    /\ imPc = "done"
    /\ imP4Empty
    /\ imPrior = 0
    /\ imEmptyRepo
    /\ ~imChanges
    /\ imMaster = 0

\* C22: after the resolver has run for a first import that starts at
\* @S, the graft changelist is the largest changelist of the view that
\* is smaller than S, and none is set when the view has no such
\* changelist, whether or not S itself touches the view.
C22_GraftIsPrecedingChange ==
    gPc = "done" =>
        LET before == {c \in gView : c < gStart}
        IN  gGraft = IF before = {} THEN None ELSE MaxOf(before)

\* C23: once a commit's changelist description has gone through
\* add_commit, the author and committer written are the commit's own
\* and the data written is the commit's message, whatever the message
\* holds, the text "Imported from Git" included.
C23_DescriptionRoundTrip ==
    dPc = "reimported" =>
        /\ dOut.author = dCommit.author
        /\ dOut.committer = dCommit.committer
        /\ dOut.data = dCommit.data

\* The class of a filetype: symlink, executable or text.
C24_ClassOfType(type) ==
    IF is_symlink(type) THEN "symlink"
    ELSE IF is_x_type(type) THEN "executable"
    ELSE "text"

\* C24: a changelist without keyword expansion that is imported into an
\* empty repository and exported again gives a changelist with the same
\* paths, the same content and the same filetype class for every path,
\* and the import of that changelist gives the first commit's tree, as
\* an equal commit hash requires.
C24_ChangelistRoundTrip ==
    /\ tPc # "raised"
    /\ tPc \in {"exported", "reimported"} =>
          /\ DOMAIN tExport = DOMAIN tChange
          /\ \A p \in DOMAIN tChange :
                /\ tExport[p].content = tChange[p].content
                /\ C24_ClassOfType(StoredType(tExport[p].p4type)) = C24_ClassOfType(tChange[p].type)
    /\ tPc = "reimported" => tTree2 = tTree

\* C25: while no acquire() has found a stale heartbeat, at most one
\* process is past a successful acquire() and before its own release(),
\* a holder that died without release() included.
C25_ExclusionWithoutStealing ==
    ~lkStolen =>
        \A p, q \in Procs :
            (lkHas[p] /\ lkHas[q] /\ lkPc[p] \in {"held", "dead"} /\ lkPc[q] \in {"held", "dead"})
                => p = q

C25_Witness ==
    \E p, q, r \in Procs :
        /\ ~lkStolen
        /\ lkPc[p] = "released"
        /\ lkPc[q] = "held"
        /\ lkHas[q]
        /\ lkPc[r] = "waiting"
        /\ lkCounter >= 2

\* C26: when a holder's lock was reclaimed by another process that now
\* holds it, the steps of the former holder's release() change neither
\* the lock counter nor the heartbeat counter.
C26_LateReleaseSparesNewHolder ==
    [][\A p, q \in Procs :
          (/\ p # q
           /\ lkPc[p] \in {"stalled", "delete_counter"}
           /\ lkHas[p]
           /\ ~lkStealing[p]
           /\ lkPc[q] = "held"
           /\ lkHas[q]
           /\ lkPc'[p] # lkPc[p])
              => UNCHANGED <<lkCounter, lkHeartbeat, lkHeartbeatPid>>]_vars

\* C27: once the lock counter has been deleted under the holder, no
\* commit or changelist after the one the loop was at is submitted or
\* added, also when another process has incremented the counter again
\* before the holder's next checkpoint.
C27_LostLockDetected ==
    cpLostAt # None => \A d \in cpDone : d <= cpLostAt

\* A process has ended between 'counter -i' and its first heartbeat or
\* between clear_heartbeat() and 'counter -d', no living process is past
\* acquire(), the lock counter is set and the heartbeat counter is absent.
C28_LeftWithoutHeartbeat ==
    /\ \E p \in Procs : lkPc[p] = "ended" /\ lkHas[p]
    /\ \A q \in Procs : lkPc[q] \notin {"acquired", "held", "stalled"}
    /\ \A q \in Procs : lkPc[q] = "delete_counter" => lkStealing[q]
    /\ lkCounter # 0
    /\ lkHeartbeat = None

C29_PacemakerQuietAfterRelease ==
    [][\A p, q \in Procs :
          (/\ p # q
           /\ lkPc[p] = "released"
           /\ lkPc[q] \in {"acquired", "held"}
           /\ lkHas[q]
           /\ lkPace'[p] # lkPace[p])
              => UNCHANGED <<lkHeartbeat, lkHeartbeatPid>>]_vars

\* C30: when a process of one view starts add_objects_to_p4 while a process
\* of another view has files opened for add in the host's object client,
\* the starting process's revert leaves those files opened, so that they
\* reach the other process's submit.
C30_RevertSparesOtherView ==
    [][\A v, u \in Views :
          (/\ v # u
           /\ mPc[v] = "idle"
           /\ mPc'[v] = "fstat"
           /\ mPc[u] \in {"edit", "submit"})
              => \A f \in AllPaths :
                    (mOpened[f].action = "add" /\ mOpened[f].views = <<u>>)
                        => mOpened'[f] = mOpened[f]]_vars

\* The known-good changelist numbers of the checker, the query result of
\* the last check() oldest first, and the known-good numbers left after the
\* leading ones absent from the query result are discarded.
CkGoodNumbers == [i \in 1..Len(ckGood) |-> ckGood[i].p4_changelist_number]

CkChanges == Reverse(ckQuery)

CkKeptGood == SkipOldGood(CkGoodNumbers, CkChanges)

\* The number of leading positions on which two sequences agree.
CkAgree(a, b) ==
    Cardinality({n \in 1..Len(a) : n <= Len(b) /\ SubSeq(a, 1, n) = SubSeq(b, 1, n)})

\* C31: a check() that detects a conflict returns without raising, and
\* returns the changelist at which the comparison diverged: the entry of
\* the undiscarded known-good list at the index found, or the first
\* unmatched changelist of the query when the known-good list is used up.
C31_ConflictReturned ==
    (ckChecked /\ has_conflict(ckFirst)) =>
        /\ ckRaised = "none"
        /\ ckRet = IF ckFirst < Len(CkKeptGood)
                   THEN CkKeptGood[ckFirst + 1]
                   ELSE CkChanges[ckFirst + 1]

\* C32: find_conflict_index returns None exactly when the known-good
\* changelists left after the discard equal the query result oldest first,
\* and otherwise the number of leading positions on which the two agree.
C32_IndexIsAgreement ==
    ckChecked =>
        ckFirst = IF CkKeptGood = CkChanges
                  THEN None
                  ELSE CkAgree(CkKeptGood, CkChanges)

C32_Witness ==
    /\ ckChecked
    /\ Len(CkKeptGood) < Len(CkGoodNumbers)
    /\ ckFirst # None
    /\ ckFirst >= 1
    /\ ckFirst < Len(CkKeptGood)
    /\ ckFirst < Len(CkChanges)

\* C33: a check() that follows a check() with no submit and no
\* record_commit between them gives the same result, and after every
\* check() has_conflict() is true exactly when that check() returned a
\* changelist.
C33_CheckIdempotent ==
    /\ [](ckChecked => (has_conflict(ckFirst) <=> ckRet # None))
    /\ [][(ckChecked /\ ckChecked') =>
              (ckRet' = ckRet /\ ckRaised' = ckRaised /\ ckFirst' = ckFirst)]_vars

\* C34: when copy() has ended, on whatever path, every changelist the
\* exporter submitted is owned by an account other than the technical one
\* (p4_submit rewrote owner and date to the author's) and is recorded as a
\* known-good pair of the conflict checker.
C34_SubmittedOwnedAndRecorded ==
    xPc = "done" =>
        \A i \in DOMAIN xChanges :
            xChanges[i].by = "own" =>
                /\ xChanges[i].user # P4GF_USER
                /\ \E j \in DOMAIN xGood :
                      /\ xGood[j].p4_changelist_number = i
                      /\ xGood[j].git_commit_sha1 = xChanges[i].commit

\* The commands of the log that carry out a rename or a copy, and those
\* that add, edit or delete.
C35_IsFirstPass(c) == c.key[1] \in {"move", "copy"}

C35_IsSecondPass(c) == c.key[1] \in {"add", "edit", "delete"}

\* The blobs of the commit that the second pass puts under a key.
C35_BlobsOfKey(key) ==
    {rBlobs[i].path : i \in {j \in DOMAIN rBlobs :
        /\ rBlobs[j].action = (CASE key[1] = "add" -> "Madd"
                                 [] key[1] = "edit" -> "Medit"
                                 [] OTHER -> "D")
        /\ rBlobs[j].p4type = key[2]}}

C36_ImportInIncreasingOrder ==
    /\ \A i \in DOMAIN imScript : imScript[i].mark \in imKeys
    /\ \A i, j \in DOMAIN imScript :
          i < j => int(imScript[i].mark) < int(imScript[j].mark)
    /\ \A i \in DOMAIN imScript : \A k \in imKeys :
          int(k) < int(imScript[i].mark) => \E j \in 1..(i - 1) : imScript[j].mark = k
    /\ Len(imScript) >= 1 =>
          IF imPrior # 0
          THEN /\ imScript[1].base = "from"
               /\ imScript[1].ref = Sha1(imPrior)
               /\ Len(imScript[1].ref) = 40
          ELSE imScript[1].base = "deleteall"
    /\ \A i \in 2..Len(imScript) :
          /\ imScript[i].base = "from :"
          /\ imScript[i].ref = imScript[i - 1].mark

C36_Witness ==
    /\ imPc = "fast_import"
    /\ imPrior # 0
    /\ Len(imScript) = 2
    /\ imScript[1].mark = str(9)
    /\ imScript[2].mark = str(10)

\* C37: after _collapse_to_graft_change no changelist numbered as the graft
\* changelist or lower is among the changelists to import, the graft
\* changelist holds at most one file for a depot path, and that file is the
\* revision of the path with the highest changelist number not above the
\* graft changelist.
C37_CollapsedToGraft ==
    (gPc = "collapsed" /\ gGraft # None) =>
        /\ \A c \in gChanges : gGraft < c
        /\ \A i, j \in DOMAIN gGraftFiles :
              gGraftFiles[i].depot_path = gGraftFiles[j].depot_path => i = j
        /\ \A i \in DOMAIN gGraftFiles :
              \E c \in gView :
                  /\ c <= gGraft
                  /\ gRevs[c][1] = gGraftFiles[i].depot_path
                  /\ RevisionNumber(gRevs, c) = gGraftFiles[i].revision
                  /\ \A d \in gView :
                        (d <= gGraft /\ gRevs[d][1] = gRevs[c][1]) => d <= c

C37_Witness ==
    /\ gPc = "collapsed"
    /\ gGraft = 3
    /\ Len(gGraftFiles) = 2
    /\ \E i \in DOMAIN gGraftFiles : gGraftFiles[i].revision = 2
    /\ 4 \in gChanges

\* C38: the path get_path_token returns for the form in which fast-export
\* wrote a path is that path, and get_path_token does not raise.
C38_PathRoundTrip ==
    ptPc = "parsed" => (ptExc = "none" /\ ptToken = ptPath)

\* C39: a call of _maybe_perform_init that has returned, in whatever
\* interleaving with the other processes, leaves the complete counter
\* non-zero and a run of the initialization function finished.
C39_ReturnedOnlyWhenComplete ==
    \A p \in DOMAIN piPc :
        piPc[p] = "returned" => (piComplete # 0 /\ piFuncDone # 0)

\* One process initialized and returned, another one returned because it
\* found the complete counter set.
C39_Witness ==
    \E p, q \in DOMAIN piPc :
        /\ piPc[p] = "returned" /\ piInited[p]
        /\ piPc[q] = "returned" /\ ~piInited[q]

\* C40: every process in _maybe_perform_init that does not die returns in
\* the end, also when the process that got the started counter died
\* before it incremented the complete counter: a state comes in which
\* every process has returned or died (neither is ever undone).
C40_EveryCallReturns ==
    <>(\A p \in InitProcs : piPc[p] = "returned" \/ ~piAlive[p])

\* The process that got the started counter died before it incremented
\* the complete counter; a waiter gave up after more than MaxCheckTimes
\* checks, initialized by itself and returned.
C40_Witness ==
    \E p, q \in DOMAIN piPc :
        /\ ~piAlive[p] /\ piPc[p] \in {"func", "increment_complete"}
        /\ piPc[q] = "returned" /\ piInited[q]
        /\ piCheckTimes[q] > MaxCheckTimes

====
